---- MODULE Spec2Model ----
(***************************************************************************)
(* Duff-Metro: the upload pipeline of src/src/validate.py and              *)
(* src/src/ingest.py (Spec), the geocoder of src/src/geocode.py (GeoSpec), *)
(* and the runs of main in src/app.py with the stored table, the map, the  *)
(* plots and the profile panel (AppSpec), as state machines.               *)
(*                                                                         *)
(* A Python str is a sequence of one-character strings, so that the        *)
(* string functions and the regular expressions of the code are computed   *)
(* character by character.  A cell of a table is a record [t, v]:          *)
(*   t = "null"  a missing value (NaN / None), v = << >>                   *)
(*   t = "str"   a text cell, v its characters                             *)
(*   t = "num"   a number, v its decimal text in canonical form            *)
(* A table (DataFrame) is [index, cols]: the row labels and the ordered    *)
(* columns, each [name, cells].                                            *)
(***************************************************************************)
EXTENDS Integers, Sequences, FiniteSets, TLC

VARIABLES
    file_bytes,      \* the uploaded bytes
    workbook,        \* what openpyxl reads from the bytes: [readable, sheets]
    selected_sheet,  \* the sheet name chosen by the caller, "" for none
    df_raw,          \* the table load_excel_sheet returned
    pc,              \* the stage process_excel_upload / validate_dataframe is at
    df,              \* df_copy / df_cleaned of validate_dataframe
    errors,          \* validate_dataframe's errors list
    warnings,        \* validate_dataframe's warnings list
    exc,             \* the exception in flight, or NoException
    upload_result,   \* what process_excel_upload returned, or NotReturned
    session_state,   \* st.session_state: [df_core, data_version]
    pending,         \* the uploads the user still makes in this session
    history,         \* the 'Process File' presses so far: [file_bytes, selected_sheet, result]
    map_df,          \* the table the Map tab rendered last, None when it showed none
    geo_pc,          \* where add_coordinates_to_dataframe is at
    geo_in,          \* the table add_coordinates_to_dataframe was called with
    geo_df,          \* df_copy of add_coordinates_to_dataframe
    geo_row,         \* the row the loop of add_coordinates_to_dataframe is at
    unresolved,      \* the unresolved list of add_coordinates_to_dataframe
    geocoding_cache, \* st.session_state.geocoding_cache: [present, entries]
    queries,         \* the query strings sent to the geocoding service, in order
    sleeps,          \* how many times geocode_location slept for the rate limit
    geo_calls,       \* the calls of geocode_location so far: [query, hit, returned]
    geo_runs,        \* how many times add_coordinates_to_dataframe was called
    s3_flags,        \* st.session_state: [checked, exists, loaded] of the s3_table_ keys
    selected_system_id, \* st.session_state.selected_system_id
    page,            \* what the last run of main put on the page
    app_pc,          \* "WAIT" for the user, "RUN" when a run of main is due
    choice_made,     \* the button of the choice screen the user pressed last
    secrets,         \* what .streamlit/secrets.toml holds for the object store
    widgets          \* the widget state the next run of main starts with

upload_vars == <<file_bytes, workbook, selected_sheet, df_raw, pc, df, errors, warnings, exc, upload_result>>
session_vars == <<session_state, pending, history, map_df>>
geo_vars == <<geo_pc, geo_in, geo_df, geo_row, unresolved, geocoding_cache, queries, sleeps, geo_calls, geo_runs>>
app_vars == <<s3_flags, selected_system_id, page, app_pc, choice_made, secrets, widgets>>
vars == <<upload_vars, session_vars, geo_vars, app_vars>>

----------------------------------------------------------------------------
(* Characters and text                                                     *)

Digits == {"0","1","2","3","4","5","6","7","8","9"}
LowerChars == <<"a","b","c","d","e","f","g","h","i","j","k","l","m","n","o","p","q","r","s","t","u","v","w","x","y","z">>
UpperChars == <<"A","B","C","D","E","F","G","H","I","J","K","L","M","N","O","P","Q","R","S","T","U","V","W","X","Y","Z">>
Letters == {LowerChars[i] : i \in 1..26} \cup {UpperChars[i] : i \in 1..26}

\* str.isalnum() of one character
IsAlnum(c) == c \in Digits \cup Letters

\* the characters str.strip() removes and the regex class \s matches
IsSpace(c) == c \in {" ", "\t", "\n"}

\* str.upper() / str.lower() of one character
UpperChar(c) == IF \E i \in 1..26 : LowerChars[i] = c
                THEN UpperChars[CHOOSE i \in 1..26 : LowerChars[i] = c] ELSE c
LowerChar(c) == IF \E i \in 1..26 : UpperChars[i] = c
                THEN LowerChars[CHOOSE i \in 1..26 : UpperChars[i] = c] ELSE c

Upper(s) == [i \in 1..Len(s) |-> UpperChar(s[i])]
Lower(s) == [i \in 1..Len(s) |-> LowerChar(s[i])]

\* s[i:] of Python, for a 1-based i
From(s, i) == SubSeq(s, i, Len(s))

\* s.replace(a, b) for single characters a, b
ReplaceChar(s, a, b) == [i \in 1..Len(s) |-> IF s[i] = a THEN b ELSE s[i]]

\* s.replace(a, '') for a single character a
RECURSIVE RemoveChar(_, _)
RemoveChar(s, a) ==
    IF s = << >> THEN << >>
    ELSE IF Head(s) = a THEN RemoveChar(Tail(s), a)
    ELSE <<Head(s)>> \o RemoveChar(Tail(s), a)

RECURSIVE LStripSet(_, _)
LStripSet(s, drop) ==
    IF s # << >> /\ Head(s) \in drop THEN LStripSet(Tail(s), drop) ELSE s

RECURSIVE RStripSet(_, _)
RStripSet(s, drop) ==
    IF s # << >> /\ s[Len(s)] \in drop THEN RStripSet(SubSeq(s, 1, Len(s) - 1), drop) ELSE s

\* str.strip(): leading and trailing whitespace removed
Strip(s) == RStripSet(LStripSet(s, {" ", "\t", "\n"}), {" ", "\t", "\n"})

\* str.strip("_")
StripUnderscores(s) == RStripSet(LStripSet(s, {"_"}), {"_"})

\* does text p occur in s starting at index i
StartsAt(s, i, p) == /\ i >= 1
                     /\ i + Len(p) - 1 <= Len(s)
                     /\ SubSeq(s, i, i + Len(p) - 1) = p

\* the number of consecutive characters of class cls in s from index i on
RECURSIVE RunLen(_, _, _)
RunLen(s, i, cls) ==
    IF i <= Len(s) /\ s[i] \in cls THEN 1 + RunLen(s, i + 1, cls) ELSE 0

\* membership of a value in a Python list
InList(x, list) == \E i \in 1..Len(list) : list[i] = x

----------------------------------------------------------------------------
(* Column names                                                            *)

N_CITY == <<"C","I","T","Y">>
N_COUNTRY == <<"C","O","U","N","T","R","Y">>
N_SYSTEM_ID == <<"S","Y","S","T","E","M","_","I","D">>
N_SYSTEM_NAME == <<"S","Y","S","T","E","M","_","N","A","M","E">>
N_OPENED_YEAR == <<"O","P","E","N","E","D","_","Y","E","A","R">>
N_NUMBER_OF_LINES == <<"N","U","M","B","E","R","_","O","F","_","L","I","N","E","S">>
N_TOTAL_MILES == <<"T","O","T","A","L","_","M","I","L","E","S">>
N_ANNUAL_RIDERSHIP == <<"A","N","N","U","A","L","_","R","I","D","E","R","S","H","I","P">>
N_CITY_POPULATION == <<"C","I","T","Y","_","P","O","P","U","L","A","T","I","O","N">>
N_VISITED == <<"V","I","S","I","T","E","D">>
N_LAST_MAJOR_UPDATE == <<"L","A","S","T","_","M","A","J","O","R","_","U","P","D","A","T","E">>
N_STATIONS == <<"S","T","A","T","I","O","N","S">>
N_LATITUDE == <<"L","A","T","I","T","U","D","E">>
N_LONGITUDE == <<"L","O","N","G","I","T","U","D","E">>
H_City == <<"C","i","t","y">>
H_Country == <<"C","o","u","n","t","r","y">>
H_Sequence == <<"S","e","q","u","e","n","c","e">>
H_Name == <<"N","a","m","e">>
H_Lines == <<"L","i","n","e","s">>
H_SystemLengthMiles == <<"S","y","s","t","e","m"," ","l","e","n","g","t","h"," "," "," ","m","i","l","e","s">>
H_AnnualRidership == <<"A","n","n","u","a","l"," ","R","i","d","e","r","s","h","i","p">>
H_Ridden == <<"R","i","d","d","e","n","?">>
H_YearOfLastExpansion == <<"Y","e","a","r"," ","o","f"," ","l","a","s","t"," ","e","x","p","a","n","s","i","o","n">>
H_Stations == <<"S","t","a","t","i","o","n","s">>
H_YearWhenFirstRidden == <<"Y","e","a","r"," ","w","h","e","n"," ","F","i","r","s","t"," ","R","i","d","d","e","n">>
H_Continent == <<"C","o","n","t","i","n","e","n","t">>
H_YearOpenedGeneral == <<"Y","e","a","r"," ","o","p","e","n","e","d"," ","(","G","e","n","e","r","a","l"," ","F","o","r","m","a","t",")">>
H_YearOpenedDateOrder == <<"Y","e","a","r"," ","o","p","e","n","e","d"," "," "," "," "," ","(","d","a","t","e"," ","o","r","d","e","r",")">>
H_SystemLengthKm == <<"S","y","s","t","e","m"," ","l","e","n","g","t","h"," "," ","k","m">>
H_YearOfRidershipData == <<"Y","e","a","r"," ","o","f"," ","r","i","d","e","r","s","h","i","p"," ","d","a","t","a"," ">>
H_VisitedNotRidden == <<"V","i","s","i","t","e","d"," ","b","u","t"," ","s","u","b","w","a","y"," ","n","o","t"," ","r","i","d","d","e","n">>
H_Logo == <<"L","o","g","o">>
H_Pre1985 == <<"P","r","e","-","1","9","8","5","?">>

REQUIRED_COLUMNS == <<N_SYSTEM_ID, N_CITY, N_COUNTRY>>

\* the dict of canonical name -> header variants, in its insertion order
COLUMN_MAPPINGS == <<
    [name |-> N_CITY,              variants |-> <<N_CITY, H_City>>],
    [name |-> N_COUNTRY,           variants |-> <<N_COUNTRY, H_Country>>],
    [name |-> N_SYSTEM_ID,         variants |-> <<N_SYSTEM_ID, H_Sequence>>],
    [name |-> N_SYSTEM_NAME,       variants |-> <<N_SYSTEM_NAME, H_Name>>],
    [name |-> N_OPENED_YEAR,       variants |-> <<N_OPENED_YEAR>>],
    [name |-> N_NUMBER_OF_LINES,   variants |-> <<N_NUMBER_OF_LINES, H_Lines>>],
    [name |-> N_TOTAL_MILES,       variants |-> <<N_TOTAL_MILES, H_SystemLengthMiles>>],
    [name |-> N_ANNUAL_RIDERSHIP,  variants |-> <<N_ANNUAL_RIDERSHIP, H_AnnualRidership>>],
    [name |-> N_CITY_POPULATION,   variants |-> <<N_CITY_POPULATION>>],
    [name |-> N_VISITED,           variants |-> <<N_VISITED, H_Ridden>>],
    [name |-> N_LAST_MAJOR_UPDATE, variants |-> <<N_LAST_MAJOR_UPDATE, H_YearOfLastExpansion>>],
    [name |-> N_STATIONS,          variants |-> <<H_Stations>>],
    [name |-> N_LATITUDE,          variants |-> <<N_LATITUDE>>],
    [name |-> N_LONGITUDE,         variants |-> <<N_LONGITUDE>>] >>

IGNORE_COLUMNS == <<
    H_City, H_YearWhenFirstRidden, H_Continent, H_YearOpenedGeneral,
    H_YearOpenedDateOrder, H_SystemLengthKm, H_YearOfRidershipData,
    H_VisitedNotRidden, H_Logo, H_Pre1985 >>

\* numeric_columns of convert_numeric_columns, in its order
numeric_columns == <<
    N_OPENED_YEAR, N_NUMBER_OF_LINES, N_TOTAL_MILES, N_ANNUAL_RIDERSHIP,
    N_CITY_POPULATION, N_STATIONS, N_LAST_MAJOR_UPDATE, N_LATITUDE, N_LONGITUDE >>

\* a faulty variant: LAST_MAJOR_UPDATE is left out of the suppressed columns
SuppressedColumns_ridershipOnly == <<N_ANNUAL_RIDERSHIP>>

\* the columns whose coercion failures are not reported
SuppressedColumns == <<N_ANNUAL_RIDERSHIP, N_LAST_MAJOR_UPDATE>>

----------------------------------------------------------------------------
(* Cells                                                                   *)

Null == [t |-> "null", v |-> << >>]
StrCell(s) == [t |-> "str", v |-> s]
NumCell(s) == [t |-> "num", v |-> s]

\* pd.isna of one cell
isna(c) == c.t = "null"

\* Series.astype(str) of one cell: a missing value prints as 'nan', a text
\* cell is its text, a number prints its decimal text
astype_str(c) == IF c.t = "null" THEN <<"n","a","n">> ELSE c.v

----------------------------------------------------------------------------
(* Regular expressions and number texts                                    *)

NoMatch == [ok |-> FALSE, s |-> << >>]
Match(s) == [ok |-> TRUE, s |-> s]

MinOf(S) == CHOOSE x \in S : \A y \in S : x <= y

\* re.sub(r'\([^)]*\)', '', s): every '(' ... first following ')' is removed
RECURSIVE RemoveParenthesised(_)
RemoveParenthesised(s) ==
    IF s = << >> THEN << >>
    ELSE IF Head(s) = "(" /\ \E j \in 2..Len(s) : s[j] = ")"
         THEN RemoveParenthesised(From(s, MinOf({j \in 2..Len(s) : s[j] = ")"}) + 1))
         ELSE <<Head(s)>> \o RemoveParenthesised(Tail(s))

\* the pattern [-+]?\d{1,3}(?:,\d{3})*(?:\.\d+)? can match at index i
TokenStartsAt(s, i) ==
    \/ i <= Len(s) /\ s[i] \in Digits
    \/ i < Len(s) /\ s[i] \in {"-", "+"} /\ s[i + 1] \in Digits

\* the index after the greedy (?:,\d{3})* from index i
RECURSIVE GroupsEnd(_, _)
GroupsEnd(s, i) ==
    IF /\ i + 3 <= Len(s)
       /\ s[i] = ","
       /\ s[i + 1] \in Digits /\ s[i + 2] \in Digits /\ s[i + 3] \in Digits
    THEN GroupsEnd(s, i + 4)
    ELSE i

\* the index after the greedy (?:\.\d+)? from index i
FractionEnd(s, i) ==
    IF i < Len(s) /\ s[i] = "." /\ s[i + 1] \in Digits
    THEN i + 1 + RunLen(s, i + 1, Digits)
    ELSE i

\* the digits \d{1,3} takes from index d: as many as there are, at most 3
LeadingDigits(s, d) == IF RunLen(s, d, Digits) < 3 THEN RunLen(s, d, Digits) ELSE 3

\* the text the pattern matches at index i (greedy, nothing after it is
\* mandatory, so no backtracking)
TokenAt(s, i) ==
    LET d == IF s[i] \in Digits THEN i ELSE i + 1
        a == d + LeadingDigits(s, d)
        b == GroupsEnd(s, a)
        e == FractionEnd(s, b)
    IN SubSeq(s, i, e - 1)

\* re.search(r'([-+]?\d{1,3}(?:,\d{3})*(?:\.\d+)?)', s): group 1 of the
\* leftmost match
numeric_match(s) ==
    LET starts == {i \in 1..Len(s) : TokenStartsAt(s, i)}
    IN IF starts = {} THEN NoMatch ELSE Match(TokenAt(s, MinOf(starts)))

\* re.search(r'\(?\s*([-+]?\d{1,3}(?:,\d{3})*(?:\.\d+)?)\s*(?:mi|miles?|km|kilometers?)?\s*\)?', s, re.IGNORECASE):
\* the parts around group 1 are all optional, a match may begin at a '(' or
\* at spaces before the token but group 1 begins where the token first can,
\* so group 1 is the same text as numeric_match finds
unit_numeric_match(s) == numeric_match(s)

\* the end (exclusive) of group 1 of ([\d,]+\.?\d*) from index i
ScaledGroupEnd(s, i) ==
    LET a == i + RunLen(s, i, Digits \cup {","})
    IN IF a <= Len(s) /\ s[a] = "." THEN a + 1 + RunLen(s, a + 1, Digits) ELSE a

\* ([\d,]+\.?\d*)\s*<word> matches at index i, ignoring case
ScaledMatchesAt(s, i, word) ==
    /\ s[i] \in Digits \cup {","}
    /\ LET b == ScaledGroupEnd(s, i)
           w == b + RunLen(s, b, {" ", "\t", "\n"})
       IN /\ w + Len(word) - 1 <= Len(s)
          /\ Lower(SubSeq(s, w, w + Len(word) - 1)) = word

\* re.search(r'([\d,]+\.?\d*)\s*<word>', s, re.IGNORECASE): group 1 of the
\* leftmost match
scaled_match(s, word) ==
    LET starts == {i \in 1..Len(s) : ScaledMatchesAt(s, i, word)}
    IN IF starts = {} THEN NoMatch
       ELSE Match(SubSeq(s, MinOf(starts), ScaledGroupEnd(s, MinOf(starts)) - 1))

\* re.search(r'(\d{4})', s): the first run of four digits
year_match(s) ==
    LET starts == {i \in 1..Len(s) : RunLen(s, i, Digits) >= 4}
    IN IF starts = {} THEN NoMatch
       ELSE Match(SubSeq(s, MinOf(starts), MinOf(starts) + 3))

\* float(s) raises ValueError: s is not [digits][.][digits] with a digit
FloatRaises(s) ==
    LET n == RunLen(s, 1, Digits)
        m == IF n < Len(s) /\ s[n + 1] = "." THEN n + 1 + RunLen(s, n + 2, Digits) ELSE n
    IN \/ m # Len(s)
       \/ \A i \in 1..Len(s) : s[i] \notin Digits

\* leading zeros removed, '0' for an all-zero or empty digit text
TrimLeadingZeros(s) ==
    LET t == LStripSet(s, {"0"}) IN IF t = << >> THEN <<"0">> ELSE t

\* a natural number of any size: its decimal digits, most significant
\* first and without leading zeros (<< >> is zero)
DigitChars == <<"0","1","2","3","4","5","6","7","8","9">>
DigitOf(ch) == (CHOOSE d \in 1..10 : DigitChars[d] = ch) - 1

RECURSIVE StripZeros(_)
StripZeros(n) == IF n # << >> /\ Head(n) = 0 THEN StripZeros(Tail(n)) ELSE n

NatOf(text) == StripZeros([i \in 1..Len(text) |-> DigitOf(text[i])])
TextOf(n) == IF n = << >> THEN <<"0">> ELSE [i \in 1..Len(n) |-> DigitChars[n[i] + 1]]

\* 2 * n: a digit of 5 or more carries into the digit before it
Twice(n) ==
    (IF n # << >> /\ n[1] >= 5 THEN <<1>> ELSE << >>)
        \o [i \in 1..Len(n) |->
               (2 * n[i] + (IF i < Len(n) /\ n[i + 1] >= 5 THEN 1 ELSE 0)) % 10]

\* n \div 2: an odd digit hands ten to the digit after it
Half(n) ==
    StripZeros([i \in 1..Len(n) |->
                   ((IF i > 1 /\ n[i - 1] % 2 = 1 THEN 10 ELSE 0) + n[i]) \div 2])

IsOdd(n) == n # << >> /\ n[Len(n)] % 2 = 1

\* n + 1: the trailing nines turn to zeros
Succ(n) ==
    IF \A i \in 1..Len(n) : n[i] = 9 THEN <<1>> \o [i \in 1..Len(n) |-> 0]
    ELSE [i \in 1..Len(n) |->
             IF \A j \in i..Len(n) : n[j] = 9 THEN 0
             ELSE IF \A j \in (i + 1)..Len(n) : n[j] = 9 THEN n[i] + 1
             ELSE n[i]]

\* a < b
Less(a, b) ==
    \/ Len(a) < Len(b)
    \/ /\ Len(a) = Len(b)
       /\ \E i \in 1..Len(a) : a[i] < b[i] /\ \A j \in 1..(i - 1) : a[j] = b[j]

\* n * 10^k and n \div 10^k
TimesTenTo(n, k) == IF n = << >> THEN n ELSE n \o [i \in 1..k |-> 0]
DivTenTo(n, k) == IF Len(n) <= k THEN << >> ELSE SubSeq(n, 1, Len(n) - k)
\* n % 10^k, as k digits
ModTenTo(n, k) ==
    [i \in 1..k |-> IF Len(n) - k + i >= 1 THEN n[Len(n) - k + i] ELSE 0]

\* a double has 53 bits: its significand is below 2^53, and at least 2^52
\* unless it is zero
Two52 == <<4,5,0,3,5,9,9,6,2,7,3,7,0,4,9,6>>
Two53 == <<9,0,0,7,1,9,9,2,5,4,7,4,0,9,9,2>>

\* a double: significand * 2^(-shift)
Double(significand, shift) == [significand |-> significand, shift |-> shift]

\* round to nearest, ties to even: the quotient, the remainder of k digits
\* compared with half of 10^k
RoundedQuotient(a, k) ==
    IF k = 0 THEN a
    ELSE IF \/ Less(<<5>> \o [i \in 1..(k - 1) |-> 0], ModTenTo(a, k))
            \/ (ModTenTo(a, k) = <<5>> \o [i \in 1..(k - 1) |-> 0] /\ IsOdd(DivTenTo(a, k)))
    THEN Succ(DivTenTo(a, k))
    ELSE DivTenTo(a, k)

\* the double nearest to a / 10^k * 2^(-shift), for 0 < a / 10^k < 2^53:
\* a is doubled until the quotient has 53 bits
RECURSIVE NearestDouble(_, _, _)
NearestDouble(a, k, shift) ==
    IF Less(DivTenTo(a, k), Two52)
    THEN NearestDouble(Twice(a), k, shift + 1)
    ELSE Double(RoundedQuotient(a, k), shift)

\* float(s) for s = [digits][.][digits]
float(s) ==
    IF NatOf(RemoveChar(s, ".")) = << >> THEN Double(<< >>, 0)
    ELSE NearestDouble(NatOf(RemoveChar(s, ".")),
                       IF RunLen(s, 1, Digits) < Len(s)
                       THEN Len(s) - RunLen(s, 1, Digits) - 1 ELSE 0,
                       0)

\* an exact product is halved until it has 53 bits; the last bit dropped
\* and the bits dropped before it decide the rounding
RECURSIVE RoundedDouble(_, _, _, _)
RoundedDouble(n, shift, last, earlier) ==
    IF ~Less(n, Two53)
    THEN RoundedDouble(Half(n), shift - 1, IsOdd(n), earlier \/ last)
    ELSE IF last /\ (earlier \/ IsOdd(n)) THEN Double(Succ(n), shift)
    ELSE Double(n, shift)

\* x * 10^k for a double x, k <= 15 (10^k is a double itself)
float_times(x, k) == RoundedDouble(TimesTenTo(x.significand, k), x.shift, FALSE, FALSE)

\* int(x) for x >= 0: the bits after the binary point are cut off
RECURSIVE int(_)
int(x) ==
    IF x.significand = << >> THEN << >>
    ELSE IF x.shift > 0 THEN int(Double(Half(x.significand), x.shift - 1))
    ELSE IF x.shift < 0 THEN int(Double(Twice(x.significand), x.shift + 1))
    ELSE x.significand

\* str(int(float(s) * 10^k)) for a text s = [digits][.][digits], in the
\* binary floating point of float
scale_to_int(s, k) == TextOf(int(float_times(float(s), k)))

\* the canonical decimal text of [-+]?digits[.digits]: no '+', no leading
\* zeros, no trailing zeros of the fraction, no '-' on zero
Canonical(s) ==
    LET neg  == s # << >> /\ Head(s) = "-"
        body == IF s # << >> /\ Head(s) \in {"-", "+"} THEN Tail(s) ELSE s
        n    == RunLen(body, 1, Digits)
        ip   == TrimLeadingZeros(SubSeq(body, 1, n))
        fp   == RStripSet(IF n < Len(body) THEN From(body, n + 2) ELSE << >>, {"0"})
        mag  == IF fp = << >> THEN ip ELSE ip \o <<".">> \o fp
    IN IF neg /\ mag # <<"0">> THEN <<"-">> \o mag ELSE mag

\* the text is a decimal number as pd.to_numeric reads one: optional sign,
\* digits with an optional fraction, or a fraction alone
IsNumberText(s) ==
    LET body == IF s # << >> /\ Head(s) \in {"-", "+"} THEN Tail(s) ELSE s
        n    == RunLen(body, 1, Digits)
        m    == IF n < Len(body) /\ body[n + 1] = "."
                THEN n + 1 + RunLen(body, n + 2, Digits) ELSE n
    IN /\ m = Len(body)
       /\ \E i \in 1..Len(body) : body[i] \in Digits

\* pd.to_numeric(..., errors='coerce') of one cell: a number stays, a text
\* that reads as a number becomes it, anything else becomes NaN
to_numeric(c) ==
    IF c.t = "num" THEN c
    ELSE IF c.t = "str" /\ IsNumberText(Strip(c.v)) THEN NumCell(Canonical(Strip(c.v)))
    ELSE Null
----------------------------------------------------------------------------
(* Tables                                                                  *)

\* Python's None
None == [none |-> TRUE]

\* df.columns
Columns(t) == [i \in 1..Len(t.cols) |-> t.cols[i].name]

\* name in df.columns
HasColumn(t, name) == InList(name, Columns(t))

\* how many columns carry the name
CountColumns(t, name) == Cardinality({i \in 1..Len(t.cols) : t.cols[i].name = name})

\* df[name] for a name one column carries: its cells
Column(t, name) == t.cols[MinOf({i \in 1..Len(t.cols) : t.cols[i].name = name})].cells

\* len(df)
NRows(t) == Len(t.index)

\* df.empty: no rows or no columns
IsEmpty(t) == NRows(t) = 0 \/ Len(t.cols) = 0

\* the positions a boolean mask keeps, ascending
RECURSIVE KeptPositions(_, _)
KeptPositions(mask, i) ==
    IF i > Len(mask) THEN << >>
    ELSE IF mask[i] THEN <<i>> \o KeptPositions(mask, i + 1)
    ELSE KeptPositions(mask, i + 1)

\* values[mask]: the entries the mask keeps, in their order
Masked(values, mask) ==
    [k \in 1..Len(KeptPositions(mask, 1)) |-> values[KeptPositions(mask, 1)[k]]]

\* df[mask].copy(): the rows the mask keeps, in their order, labels kept
SelectRows(t, mask) ==
    [index |-> Masked(t.index, mask),
     cols  |-> [j \in 1..Len(t.cols) |->
                  [name |-> t.cols[j].name, cells |-> Masked(t.cols[j].cells, mask)]]]

\* df[name] = cells: the column is replaced in place, or appended when new
SetColumn(t, name, cells) ==
    IF HasColumn(t, name)
    THEN [t EXCEPT !.cols = [j \in 1..Len(t.cols) |->
                                IF t.cols[j].name = name
                                THEN [name |-> name, cells |-> cells]
                                ELSE t.cols[j]]]
    ELSE [t EXCEPT !.cols = Append(t.cols, [name |-> name, cells |-> cells])]

----------------------------------------------------------------------------
(* Column names: normalize_column_name, map_columns_to_normalized          *)

\* while "__" in s: s = s.replace("__", "_")  leaves one '_' per run
RECURSIVE CollapseUnderscores(_)
CollapseUnderscores(s) ==
    IF Len(s) < 2 THEN s
    ELSE IF s[1] = "_" /\ s[2] = "_" THEN CollapseUnderscores(Tail(s))
    ELSE <<Head(s)>> \o CollapseUnderscores(Tail(s))

\* a header is text here; the pd.isna(col_name) branch is for a missing header
normalize_column_name(col_name) ==
    LET stripped == Strip(col_name)
        spaced   == ReplaceChar(stripped, " ", "_")
        kept     == [i \in 1..Len(spaced) |->
                        IF IsAlnum(spaced[i]) \/ spaced[i] = "_" THEN spaced[i] ELSE "_"]
    IN StripUnderscores(CollapseUnderscores(Upper(kept)))

\* a dict is the sequence of its items [key, value] in insertion order
Keys(m) == [i \in 1..Len(m) |-> m[i].key]
Values(m) == [i \in 1..Len(m) |-> m[i].value]
Lookup(m, k) == m[MinOf({i \in 1..Len(m) : m[i].key = k})].value

\* the first loop: per canonical name, its first variant found among the headers
RECURSIVE MapKnownVariants(_, _, _)
MapKnownVariants(columns, k, column_mapping) ==
    IF k > Len(COLUMN_MAPPINGS) THEN column_mapping
    ELSE LET variants == COLUMN_MAPPINGS[k].variants
             found    == {i \in 1..Len(variants) : InList(variants[i], columns)}
         IN IF found = {} THEN MapKnownVariants(columns, k + 1, column_mapping)
            ELSE MapKnownVariants(columns, k + 1,
                     Append(column_mapping,
                            [key |-> variants[MinOf(found)], value |-> COLUMN_MAPPINGS[k].name]))

\* the second loop: an unmapped header takes its normalized name when that
\* differs, is not yet a value of the mapping, and the header is not ignored
RECURSIVE MapRemaining(_, _, _)
MapRemaining(columns, j, column_mapping) ==
    IF j > Len(columns) THEN column_mapping
    ELSE LET col        == columns[j]
             normalized == normalize_column_name(col)
         IN IF /\ ~InList(col, Keys(column_mapping))
               /\ normalized # col
               /\ ~InList(normalized, Values(column_mapping))
               /\ ~InList(col, IGNORE_COLUMNS)
            THEN MapRemaining(columns, j + 1,
                     Append(column_mapping, [key |-> col, value |-> normalized]))
            ELSE MapRemaining(columns, j + 1, column_mapping)

\* the rename mapping map_columns_to_normalized builds for the headers
BuildColumnMapping(columns) ==
    MapRemaining(columns, 1, MapKnownVariants(columns, 1, << >>))

map_columns_to_normalized(t) ==
    LET column_mapping == BuildColumnMapping(Columns(t))
    IN [t EXCEPT !.cols = [j \in 1..Len(t.cols) |->
            IF InList(t.cols[j].name, Keys(column_mapping))
            THEN [t.cols[j] EXCEPT !.name = Lookup(column_mapping, t.cols[j].name)]
            ELSE t.cols[j]]]

\* the required columns df lacks, in REQUIRED_COLUMNS order
validate_required_columns(t) ==
    Masked(REQUIRED_COLUMNS,
           [i \in 1..Len(REQUIRED_COLUMNS) |-> ~HasColumn(t, REQUIRED_COLUMNS[i])])

----------------------------------------------------------------------------
(* generate_system_id_if_missing                                           *)

\* a faulty variant: the two texts are joined without .str.strip()
derived_system_id_unstripped(city, country) ==
    StrCell(ReplaceChar(Upper(astype_str(city) \o <<"_">> \o astype_str(country)), " ", "_"))

\* (CITY.astype(str).str.strip() + "_" + COUNTRY.astype(str).str.strip())
\*     .str.upper().str.replace(" ", "_")   for one row
derived_system_id(city, country) ==
    StrCell(ReplaceChar(
        Upper(Strip(astype_str(city)) \o <<"_">> \o Strip(astype_str(country))),
        " ", "_"))

\* a faulty variant: the derived ids are made unique by the row label
derived_rows_numbered(t) ==
    [r \in 1..NRows(t) |->
        StrCell(derived_system_id(Column(t, N_CITY)[r], Column(t, N_COUNTRY)[r]).v
                    \o <<"_", DigitChars[t.index[r] + 1]>>)]

\* the derived id of every row
derived_rows(t) ==
    [r \in 1..NRows(t) |->
        derived_system_id(Column(t, N_CITY)[r], Column(t, N_COUNTRY)[r])]

\* a faulty variant: every row without an id gets a derived one
generate_system_id_per_row(t) ==
    SetColumn(t, N_SYSTEM_ID,
        [r \in 1..NRows(t) |->
            IF HasColumn(t, N_SYSTEM_ID) /\ ~isna(Column(t, N_SYSTEM_ID)[r])
            THEN Column(t, N_SYSTEM_ID)[r]
            ELSE derived_system_id(Column(t, N_CITY)[r], Column(t, N_COUNTRY)[r])])

\* if "SYSTEM_ID" not in df_copy.columns or df_copy["SYSTEM_ID"].isna().all()
generate_system_id_if_missing(t) ==
    IF \/ ~HasColumn(t, N_SYSTEM_ID)
       \/ \A r \in 1..NRows(t) : isna(Column(t, N_SYSTEM_ID)[r])
    THEN SetColumn(t, N_SYSTEM_ID, derived_rows(t))
    ELSE t

----------------------------------------------------------------------------
(* convert_numeric_columns and its robust_to_numeric                       *)

T_nan == <<"n","a","n">>
T_None == <<"N","o","n","e">>
T_NaT == <<"N","a","T">>
T_NA == <<"<","N","A",">">>
T_billion == <<"b","i","l","l","i","o","n">>
T_million == <<"m","i","l","l","i","o","n">>

\* the texts the mask turns into None before any pattern is tried
NullTokens == <<T_nan, T_None, << >>, T_None, T_NaT, T_NA>>

\* what the loop over the cells leaves in `converted`, or the exception it
\* raises, for a text that is not a null token
Converted(value) == [raised |-> FALSE, value |-> value]
Raised == [raised |-> TRUE, value |-> Null]

FromMatch(m, text) == IF m.ok THEN Converted(StrCell(text)) ELSE Converted(Null)

\* the ANNUAL_RIDERSHIP branch: '<number> billion', then '<number> million',
\* then the first number outside parentheses
convert_ridership(val) ==
    LET billion_match == scaled_match(val, T_billion)
        million_match == scaled_match(val, T_million)
        stripped      == Strip(RemoveParenthesised(val))
        m             == numeric_match(stripped)
    IN IF billion_match.ok
       THEN IF FloatRaises(RemoveChar(billion_match.s, ","))
            THEN Raised
            ELSE Converted(StrCell(scale_to_int(RemoveChar(billion_match.s, ","), 9)))
       ELSE IF million_match.ok
       THEN IF FloatRaises(RemoveChar(million_match.s, ","))
            THEN Raised
            ELSE Converted(StrCell(scale_to_int(RemoveChar(million_match.s, ","), 6)))
       ELSE FromMatch(m, RemoveChar(m.s, ","))

\* the TOTAL_MILES / LATITUDE / LONGITUDE branch: the number, with or without
\* parentheses and a unit; the fallback search runs when the first finds none
convert_measure(val) ==
    LET m == unit_numeric_match(val)
        f == numeric_match(val)
    IN IF m.ok THEN Converted(StrCell(RemoveChar(m.s, ",")))
       ELSE FromMatch(f, RemoveChar(f.s, ","))

\* the LAST_MAJOR_UPDATE branch: the first four digits in a row
convert_year(val) == FromMatch(year_match(val), year_match(val).s)

\* every other column: parenthesised notes removed, then the first number
convert_generic(val) ==
    LET m == numeric_match(RemoveParenthesised(val))
    IN FromMatch(m, RemoveChar(m.s, ","))

\* one pass of the loop body of robust_to_numeric for one cell
convert_cell(c, column_name) ==
    IF InList(astype_str(c), NullTokens) THEN Converted(Null)
    ELSE LET val == Strip(astype_str(c))
         IN IF column_name = N_ANNUAL_RIDERSHIP THEN convert_ridership(val)
            ELSE IF column_name \in {N_TOTAL_MILES, N_LATITUDE, N_LONGITUDE}
                 THEN convert_measure(val)
            ELSE IF column_name = N_LAST_MAJOR_UPDATE THEN convert_year(val)
            ELSE convert_generic(val)

\* a faulty variant: the slice [:3] is taken before unique()
RECURSIVE UniqueFirst_sliceFirst(_, _, _)
UniqueFirst_sliceFirst(values, i, acc) ==
    IF i > Len(values) \/ i > 3 THEN acc
    ELSE IF InList(values[i], acc) THEN UniqueFirst_sliceFirst(values, i + 1, acc)
    ELSE UniqueFirst_sliceFirst(values, i + 1, Append(acc, values[i]))

\* Series.unique()[:3]: the distinct values in order of first occurrence, at
\* most three of them
RECURSIVE UniqueFirst(_, _, _)
UniqueFirst(values, i, acc) ==
    IF i > Len(values) \/ Len(acc) = 3 THEN acc
    ELSE IF InList(values[i], acc) THEN UniqueFirst(values, i + 1, acc)
    ELSE UniqueFirst(values, i + 1, Append(acc, values[i]))

\* a faulty variant: the text 'N/A' is taken for a missing value
IsFailure_skipsNA(original, coerced) ==
    isna(coerced) /\ ~isna(original) /\ original.v # <<"N","/","A">>

\* a cell counts as a failure when it was not null and its result is
IsFailure(original, coerced) == isna(coerced) /\ ~isna(original)

\* the end of robust_to_numeric: pd.to_numeric over the converted cells, then
\* the failures and the sample of their original values
FinishConversion(series, result) ==
    [raised |-> FALSE,
     result |-> result,
     failed_values |->
         UniqueFirst(Masked(series, [r \in 1..Len(series) |-> IsFailure(series[r], result[r])]),
                     1, << >>)]

AfterLoop(series, converted) ==
    IF \E r \in 1..Len(series) : converted[r].raised
    THEN [raised |-> TRUE, result |-> << >>, failed_values |-> << >>]
    ELSE FinishConversion(series, [r \in 1..Len(series) |-> to_numeric(converted[r].value)])

\* robust_to_numeric(series, column_name): [raised, result, failed_values]
robust_to_numeric(series, column_name) ==
    AfterLoop(series, [r \in 1..Len(series) |-> convert_cell(series[r], column_name)])

\* the message convert_numeric_columns appends for a column
NumericIssue(col, failed_values) ==
    [kind |-> "numeric", col |-> col, values |-> failed_values, count |-> 0]

\* the errors after a column: a message is appended when the column is
\* reported and has failed values
ErrorsAfter(errs, col, failed_values) ==
    IF ~InList(col, SuppressedColumns) /\ failed_values # << >>
    THEN Append(errs, NumericIssue(col, failed_values))
    ELSE errs

\* the loop of convert_numeric_columns from numeric_columns[k] on, with the
\* table and the errors so far: [raised, df, errors].  df[col] of a name two
\* columns carry is a DataFrame, on which robust_to_numeric raises.
RECURSIVE ConvertFrom(_, _, _)
RECURSIVE ConvertColumn(_, _, _, _)
ConvertColumn(t, k, errs, r) ==
    IF r.raised THEN [raised |-> TRUE, df |-> t, errors |-> errs]
    ELSE ConvertFrom(SetColumn(t, numeric_columns[k], r.result), k + 1,
                     ErrorsAfter(errs, numeric_columns[k], r.failed_values))

ConvertFrom(t, k, errs) ==
    IF k > Len(numeric_columns) THEN [raised |-> FALSE, df |-> t, errors |-> errs]
    ELSE IF ~HasColumn(t, numeric_columns[k]) THEN ConvertFrom(t, k + 1, errs)
    ELSE IF CountColumns(t, numeric_columns[k]) > 1
         THEN [raised |-> TRUE, df |-> t, errors |-> errs]
    ELSE ConvertColumn(t, k, errs,
             robust_to_numeric(Column(t, numeric_columns[k]), numeric_columns[k]))

\* a faulty variant: rows left with a missing value are dropped (dropna)
DropRowsWithNull(t) ==
    SelectRows(t, [r \in 1..NRows(t) |->
                      \A j \in 1..Len(t.cols) : ~isna(t.cols[j].cells[r])])

convert_numeric_columns_dropna(t) ==
    [ConvertFrom(t, 1, << >>) EXCEPT !.df = DropRowsWithNull(ConvertFrom(t, 1, << >>).df)]

convert_numeric_columns(t) == ConvertFrom(t, 1, << >>)

\* a faulty variant: the date stage reports an issue of its own
parse_date_columns_reporting(t) == [df |-> t, errors |-> <<<<"d","a","t","e">>>>]

\* parse_date_columns: the table as it is and no errors
parse_date_columns(t) == [df |-> t, errors |-> << >>]
----------------------------------------------------------------------------
(* process_excel_upload and validate_dataframe, step by step               *)

\* an entry of an issue list: which message, the column it names, the values
\* it lists and the count it states
Message(kind, col, values, count) ==
    [kind |-> kind, col |-> col, values |-> values, count |-> count]

\* f"Filtered out {rows_filtered} row(s) with non-numeric 'Sequence' values."
FilteredWarning(rows_filtered) == Message("filtered", H_Sequence, << >>, rows_filtered)

\* f"Missing required columns: {', '.join(missing_required)}. ..."
MissingRequiredMessage(missing) == Message("missing_required", << >>, missing, 0)

\* f"Error processing Excel file: {str(e)}"
ProcessingErrorMessage == Message("processing_error", << >>, << >>, 0)
NoSheetsMessage == Message("no_sheets", << >>, << >>, 0)
EmptySheetMessage == Message("empty_sheet", << >>, << >>, 0)

NoException == [type |-> "none", where |-> "none", message |-> None]
NotReturned == [returned |-> FALSE]

\* the tuple process_excel_upload returns
Returned(table, version, issues) ==
    [returned |-> TRUE, df |-> table, data_version |-> version, issues |-> issues]

\* hashlib.sha256(file_bytes).hexdigest(): a digest that is a function of the
\* bytes and of nothing else; the stand-in is a 16-bit polynomial checksum
RECURSIVE Checksum(_, _)
Checksum(bytes, h) ==
    IF bytes = << >> THEN h ELSE Checksum(Tail(bytes), (h * 31 + Head(bytes)) % 65536)

compute_data_version(bytes) == [sha256 |-> Checksum(bytes, 7)]

\* xl_file.sheet_names
get_excel_sheet_names(wb) == [i \in 1..Len(wb.sheets) |-> wb.sheets[i].name]

\* a faulty variant: notna() is taken of the Sequence column as uploaded
sequence_valid_mask_unconverted(t) ==
    [r \in 1..NRows(t) |-> ~isna(Column(t, H_Sequence)[r])]

\* the mask of step 0: pd.to_numeric(df["Sequence"], errors='coerce').notna()
sequence_valid_mask(t) ==
    [r \in 1..NRows(t) |-> ~isna(to_numeric(Column(t, H_Sequence)[r]))]

\* step 0 of validate_dataframe: [df, warnings]
filter_sequence_rows(t) ==
    IF HasColumn(t, H_Sequence)
    THEN LET valid_mask    == sequence_valid_mask(t)
             rows_filtered == Cardinality({r \in 1..NRows(t) : ~valid_mask[r]})
         IN IF rows_filtered > 0
            THEN [df |-> SelectRows(t, valid_mask),
                  warnings |-> <<FilteredWarning(rows_filtered)>>]
            ELSE [df |-> t, warnings |-> << >>]
    ELSE [df |-> t, warnings |-> << >>]

\* a faulty variant: any missing required column raises, SYSTEM_ID included
RequiredCheckFails_anyMissing(missing_required) == missing_required # << >>

\* step 2: the check raises when CITY or COUNTRY is among the missing
RequiredCheckFails(missing_required) ==
    /\ missing_required # << >>
    /\ InList(N_CITY, missing_required) \/ InList(N_COUNTRY, missing_required)

\* all_issues = errors + warnings
AllIssues == errors \o warnings

\* process_excel_upload up to the call of validate_dataframe
Begin ==
    /\ pc = "START"
    /\ IF file_bytes = << >>
       THEN /\ upload_result' = Returned(None, None, << >>)
            /\ pc' = "DONE"
            /\ UNCHANGED <<df_raw, df>>
       ELSE IF ~workbook.readable
       THEN /\ upload_result' = Returned(None, None, <<ProcessingErrorMessage>>)
            /\ pc' = "DONE"
            /\ UNCHANGED <<df_raw, df>>
       ELSE IF get_excel_sheet_names(workbook) = << >>
       THEN /\ upload_result' = Returned(None, None, <<NoSheetsMessage>>)
            /\ pc' = "DONE"
            /\ UNCHANGED <<df_raw, df>>
       ELSE LET sheet_to_load == IF selected_sheet # "" THEN selected_sheet
                                 ELSE get_excel_sheet_names(workbook)[1]
            IN IF ~InList(sheet_to_load, get_excel_sheet_names(workbook))
               THEN /\ upload_result' = Returned(None, None, <<ProcessingErrorMessage>>)
                    /\ pc' = "DONE"
                    /\ UNCHANGED <<df_raw, df>>
               ELSE LET loaded == workbook.sheets[
                            MinOf({i \in 1..Len(workbook.sheets) :
                                      workbook.sheets[i].name = sheet_to_load})].table
                    IN IF IsEmpty(loaded)
                       THEN /\ upload_result' = Returned(None, None, <<EmptySheetMessage>>)
                            /\ pc' = "DONE"
                            /\ df_raw' = loaded
                            /\ UNCHANGED df
                       ELSE /\ df_raw' = loaded
                            /\ df' = loaded
                            /\ pc' = "RAW"
                            /\ UNCHANGED upload_result
    /\ UNCHANGED <<file_bytes, workbook, selected_sheet, errors, warnings, exc>>
    /\ UNCHANGED <<session_vars, geo_vars, app_vars>>

\* Step 0: rows whose Sequence is not numeric are filtered out
SequenceFilter ==
    /\ pc = "RAW"
    /\ df' = filter_sequence_rows(df).df
    /\ warnings' = warnings \o filter_sequence_rows(df).warnings
    /\ pc' = "SEQUENCE_FILTERED"
    /\ UNCHANGED <<file_bytes, workbook, selected_sheet, df_raw, errors, exc, upload_result>>
    /\ UNCHANGED <<session_vars, geo_vars, app_vars>>

\* Step 1: column names are mapped and normalized
MapColumns ==
    /\ pc = "SEQUENCE_FILTERED"
    /\ df' = map_columns_to_normalized(df)
    /\ pc' = "COLUMNS_NORMALIZED"
    /\ UNCHANGED <<file_bytes, workbook, selected_sheet, df_raw, errors, warnings, exc, upload_result>>
    /\ UNCHANGED <<session_vars, geo_vars, app_vars>>

\* Step 2: required columns are checked
CheckRequired ==
    /\ pc = "COLUMNS_NORMALIZED"
    /\ IF RequiredCheckFails(validate_required_columns(df))
       THEN /\ exc' = [type |-> "ValidationError", where |-> "validate_dataframe",
                       message |-> MissingRequiredMessage(validate_required_columns(df))]
            /\ pc' = "RAISED"
       ELSE /\ pc' = "REQUIRED_CHECKED"
            /\ UNCHANGED exc
    /\ UNCHANGED <<file_bytes, workbook, selected_sheet, df_raw, df, errors, warnings, upload_result>>
    /\ UNCHANGED <<session_vars, geo_vars, app_vars>>

\* Step 3: SYSTEM_ID is generated if missing
BackfillId ==
    /\ pc = "REQUIRED_CHECKED"
    /\ df' = generate_system_id_if_missing(df)
    /\ pc' = "ID_BACKFILLED"
    /\ UNCHANGED <<file_bytes, workbook, selected_sheet, df_raw, errors, warnings, exc, upload_result>>
    /\ UNCHANGED <<session_vars, geo_vars, app_vars>>

\* Step 4: numeric columns are converted
ConvertNumeric ==
    /\ pc = "ID_BACKFILLED"
    /\ LET r == convert_numeric_columns(df)
       IN IF r.raised
          THEN /\ exc' = [type |-> "ValueError", where |-> "convert_numeric_columns",
                          message |-> ProcessingErrorMessage]
               /\ pc' = "RAISED"
               /\ UNCHANGED <<df, errors>>
          ELSE /\ df' = r.df
               /\ errors' = errors \o r.errors
               /\ pc' = "NUMERIC_COERCED"
               /\ UNCHANGED exc
    /\ UNCHANGED <<file_bytes, workbook, selected_sheet, df_raw, warnings, upload_result>>
    /\ UNCHANGED <<session_vars, geo_vars, app_vars>>

\* Step 5: date columns are parsed
ParseDates ==
    /\ pc = "NUMERIC_COERCED"
    /\ df' = parse_date_columns(df).df
    /\ errors' = errors \o parse_date_columns(df).errors
    /\ pc' = "DATE_PARSED"
    /\ UNCHANGED <<file_bytes, workbook, selected_sheet, df_raw, warnings, exc, upload_result>>
    /\ UNCHANGED <<session_vars, geo_vars, app_vars>>

\* validate_dataframe returns (df_cleaned, all_issues)
ValidateReturn ==
    /\ pc = "DATE_PARSED"
    /\ pc' = "CLEAN"
    /\ UNCHANGED <<file_bytes, workbook, selected_sheet, df_raw, df, errors, warnings, exc, upload_result>>
    /\ UNCHANGED <<session_vars, geo_vars, app_vars>>

\* a faulty variant: the version depends on the cleaned table too
FinishOk_versionOfTable ==
    /\ pc = "CLEAN"
    /\ upload_result' = Returned(df, compute_data_version(file_bytes \o <<NRows(df)>>), AllIssues)
    /\ pc' = "DONE"
    /\ UNCHANGED <<file_bytes, workbook, selected_sheet, df_raw, df, errors, warnings, exc>>
    /\ UNCHANGED <<session_vars, geo_vars, app_vars>>

\* process_excel_upload returns the cleaned table with its version
FinishOk ==
    /\ pc = "CLEAN"
    /\ upload_result' = Returned(df, compute_data_version(file_bytes), AllIssues)
    /\ pc' = "DONE"
    /\ UNCHANGED <<file_bytes, workbook, selected_sheet, df_raw, df, errors, warnings, exc>>
    /\ UNCHANGED <<session_vars, geo_vars, app_vars>>

\* the except clauses of process_excel_upload
FinishRaised ==
    /\ pc = "RAISED"
    /\ upload_result' = Returned(None, None, <<exc.message>>)
    /\ pc' = "DONE"
    /\ UNCHANGED <<file_bytes, workbook, selected_sheet, df_raw, df, errors, warnings, exc>>
    /\ UNCHANGED <<session_vars, geo_vars, app_vars>>

----------------------------------------------------------------------------
(* validate_dataframe and process_excel_upload as functions of their       *)
(* arguments: the stages above, composed in the order the code calls them  *)

\* what validate_dataframe gives back: the cleaned table with all issues, or
\* the exception that left it
Validated(table, issues) ==
    [raised |-> FALSE, df |-> table, issues |-> issues, message |-> None]
ValidateRaised(message) ==
    [raised |-> TRUE, df |-> None, issues |-> << >>, message |-> message]

\* steps 4 and 5 and the return: all_issues = errors + warnings
validate_converted(r, step0_warnings) ==
    IF r.raised THEN ValidateRaised(ProcessingErrorMessage)
    ELSE Validated(parse_date_columns(r.df).df,
                   (r.errors \o parse_date_columns(r.df).errors) \o step0_warnings)

\* steps 2 and 3, then the rest
validate_mapped(t, step0_warnings) ==
    IF RequiredCheckFails(validate_required_columns(t))
    THEN ValidateRaised(MissingRequiredMessage(validate_required_columns(t)))
    ELSE validate_converted(convert_numeric_columns(generate_system_id_if_missing(t)),
                            step0_warnings)

\* step 1, then the rest
validate_filtered(f) == validate_mapped(map_columns_to_normalized(f.df), f.warnings)

\* validate_dataframe(df): step 0, then the rest
validate_dataframe(t) == validate_filtered(filter_sequence_rows(t))

\* sheet_to_load = sheet_name if sheet_name else sheet_names[0]
SheetToLoad(wb, sheet) == IF sheet # "" THEN sheet ELSE get_excel_sheet_names(wb)[1]

\* pd.read_excel(..., sheet_name=name) for a sheet the workbook has
load_excel_sheet(wb, name) ==
    wb.sheets[MinOf({i \in 1..Len(wb.sheets) : wb.sheets[i].name = name})].table

\* the try block of process_excel_upload from the call of validate_dataframe
upload_validated(bytes, v) ==
    IF v.raised THEN Returned(None, None, <<v.message>>)
    ELSE Returned(v.df, compute_data_version(bytes), v.issues)

upload_loaded(bytes, loaded_table) ==
    IF IsEmpty(loaded_table) THEN Returned(None, None, <<EmptySheetMessage>>)
    ELSE upload_validated(bytes, validate_dataframe(loaded_table))

\* process_excel_upload(file_bytes, sheet_name)
process_excel_upload(bytes, wb, sheet) ==
    IF bytes = << >> THEN Returned(None, None, << >>)
    ELSE IF ~wb.readable THEN Returned(None, None, <<ProcessingErrorMessage>>)
    ELSE IF get_excel_sheet_names(wb) = << >> THEN Returned(None, None, <<NoSheetsMessage>>)
    ELSE IF ~InList(SheetToLoad(wb, sheet), get_excel_sheet_names(wb))
    THEN Returned(None, None, <<ProcessingErrorMessage>>)
    ELSE upload_loaded(bytes, load_excel_sheet(wb, SheetToLoad(wb, sheet)))

----------------------------------------------------------------------------
(* The session: render_ingest_tab's 'Process File' and the Map tab         *)

\* initialize_session_state: df_core and data_version as first set
InitialSession == [df_core |-> None, data_version |-> None]

\* a faulty variant: whatever came back is stored
store_upload_unconditionally(session, result) ==
    [session EXCEPT !.df_core = result.df, !.data_version = result.data_version]

\* if df_cleaned is not None: both keys are assigned; else: neither
store_upload(session, result) ==
    IF result.df # None
    THEN [session EXCEPT !.df_core = result.df, !.data_version = result.data_version]
    ELSE session

Pressed(bytes, sheet, result) ==
    [file_bytes |-> bytes, selected_sheet |-> sheet, result |-> result]

\* the body of `if st.button("Process File")` once process_excel_upload has
\* returned; the button is rendered only when the sheet names could be read
ProcessFile ==
    /\ pc = "DONE"
    /\ workbook.readable
    /\ session_state' = store_upload(session_state, upload_result)
    /\ history' = Append(history, Pressed(file_bytes, selected_sheet, upload_result))
    /\ pc' = "PROCESSED"
    /\ UNCHANGED <<file_bytes, workbook, selected_sheet, df_raw, df, errors, warnings, exc,
                   upload_result, pending, map_df, geo_vars, app_vars>>

\* `with tab3:` of main, later in the same run: the table handed to
\* render_map_view and render_profile_panel is st.session_state df_core
map_tab_table(session) ==
    IF session.df_core = None THEN None
    ELSE IF IsEmpty(session.df_core) THEN None
    ELSE session.df_core

MapTab ==
    /\ pc = "PROCESSED"
    /\ map_df' = map_tab_table(session_state)
    /\ pc' = "IDLE"
    /\ UNCHANGED <<file_bytes, workbook, selected_sheet, df_raw, df, errors, warnings, exc,
                   upload_result, session_state, pending, history, geo_vars, app_vars>>

\* the user chooses the next file and sheet and presses 'Process File'
NextUpload ==
    /\ pc = "IDLE"
    /\ pending # << >>
    /\ file_bytes' = Head(pending).file_bytes
    /\ workbook' = Head(pending).workbook
    /\ selected_sheet' = Head(pending).selected_sheet
    /\ pending' = Tail(pending)
    /\ df_raw' = None
    /\ df' = None
    /\ errors' = << >>
    /\ warnings' = << >>
    /\ exc' = NoException
    /\ upload_result' = NotReturned
    /\ pc' = "START"
    /\ UNCHANGED <<session_state, history, map_df, geo_vars, app_vars>>

----------------------------------------------------------------------------
(* src/src/geocode.py: geocode_location and add_coordinates_to_dataframe    *)

\* what geolocator.geocode(query, timeout=10) can do: return a location,
\* return nothing, or raise
Coordinates(lat, lon) == [latitude |-> lat, longitude |-> lon]
Located(lat, lon) == [kind |-> "location", coords |-> Coordinates(lat, lon)]
NotFound == [kind |-> "none"]
TimedOut == [kind |-> "GeocoderTimedOut"]
ServiceError == [kind |-> "GeocoderServiceError"]
Unexpected == [kind |-> "Exception"]

\* f"{city}, {country}"
query_string(city, country) == city \o <<",", " ">> \o country

\* query in cache
InCache(cache, query) == InList(query, Keys(cache))

\* cache[query] = value
DictSet(cache, query, value) ==
    IF InCache(cache, query)
    THEN [i \in 1..Len(cache) |->
             IF cache[i].key = query THEN [key |-> query, value |-> value] ELSE cache[i]]
    ELSE Append(cache, [key |-> query, value |-> value])

\* a faulty variant: a failed lookup leaves no entry behind
cache_after_failure_forgets(cache, query) == cache

\* cache[query] = None, on no location and in each except clause
cache_after_failure(cache, query) == DictSet(cache, query, None)

\* one call of geocode_location: what it returns, the cache after it, and
\* whether it queried the service and slept
Lookedup(query, hit, returned, cache, slept) ==
    [query |-> query, hit |-> hit, returned |-> returned, cache |-> cache, slept |-> slept]

geocode_query(query, cache, outcome) ==
    IF InCache(cache, query)
    THEN Lookedup(query, TRUE, Lookup(cache, query), cache, FALSE)
    ELSE IF outcome.kind = "location"
    THEN Lookedup(query, FALSE, outcome.coords, DictSet(cache, query, outcome.coords), TRUE)
    ELSE Lookedup(query, FALSE, None, cache_after_failure(cache, query), FALSE)

geocode_location(city, country, cache, outcome) ==
    geocode_query(query_string(city, country), cache, outcome)

\* row.get(name, ""): the row's cell, or the default when no column has the name
row_get(t, r, name) == IF HasColumn(t, name) THEN Column(t, name)[r] ELSE StrCell(<< >>)

\* str(row.get(name, "")).strip()
row_text(t, r, name) == Strip(astype_str(row_get(t, r, name)))

\* df_copy.at[idx, name] = value
SetCell(t, r, name, value) ==
    SetColumn(t, name, [Column(t, name) EXCEPT ![r] = value])

\* if name not in df_copy.columns: df_copy[name] = None
with_column(t, name) ==
    IF HasColumn(t, name) THEN t ELSE SetColumn(t, name, [r \in 1..NRows(t) |-> Null])

\* a faulty variant: a row is skipped when it has no coordinate at all
already_has_coordinates_inverted(lat, lon) == isna(lat) /\ isna(lon)

\* pd.notna(row.get("LATITUDE")) and pd.notna(row.get("LONGITUDE"))
already_has_coordinates(lat, lon) == ~isna(lat) /\ ~isna(lon)

\* what one pass of the loop body leaves: the table, the texts added to
\* unresolved, and the call of geocode_location it made, if any
RowDone(t, added, calls) == [df |-> t, unresolved |-> added, calls |-> calls]

row_with_coordinates(t, r, g) ==
    IF g.returned # None
    THEN RowDone(SetCell(SetCell(t, r, N_LATITUDE, NumCell(g.returned.latitude)),
                         r, N_LONGITUDE, NumCell(g.returned.longitude)),
                 << >>, <<g>>)
    ELSE RowDone(t, <<g.query>>, <<g>>)

row_without_text(t, r, city, country) == RowDone(t, <<query_string(city, country)>>, << >>)

row_lookup(t, r, city, country, cache, outcome) ==
    IF city = << >> \/ country = << >>
    THEN row_without_text(t, r, city, country)
    ELSE row_with_coordinates(t, r, geocode_location(city, country, cache, outcome))

loop_body(t, r, cache, outcome) ==
    IF already_has_coordinates(row_get(t, r, N_LATITUDE), row_get(t, r, N_LONGITUDE))
    THEN RowDone(t, << >>, << >>)
    ELSE row_lookup(t, r, row_text(t, r, N_CITY), row_text(t, r, N_COUNTRY), cache, outcome)

\* "geocoding_cache" not in st.session_state, and the dict once it is there
NoCache == [present |-> FALSE, entries |-> << >>]
Cache(entries) == [present |-> TRUE, entries |-> entries]

\* the answers the geocoding service gives in the runs explored
X_48_8566 == <<"4","8",".","8","5","6","6">>
X_2_3522 == <<"2",".","3","5","2","2">>
ServiceOutcomes == {Located(X_48_8566, X_2_3522), NotFound, TimedOut, ServiceError, Unexpected}

MaxGeoRuns == 2     \* calls of add_coordinates_to_dataframe in one session

\* add_coordinates_to_dataframe up to its loop: the copy, the cache key,
\* the two columns
AddColumns ==
    /\ geo_pc = "CALLED"
    /\ geo_df' = with_column(with_column(geo_in, N_LATITUDE), N_LONGITUDE)
    /\ unresolved' = << >>
    /\ geocoding_cache' = IF geocoding_cache.present THEN geocoding_cache ELSE Cache(<< >>)
    /\ geo_row' = 1
    /\ geo_pc' = "LOOP"
    /\ UNCHANGED <<geo_in, queries, sleeps, geo_calls, geo_runs>>
    /\ UNCHANGED <<upload_vars, session_vars, app_vars>>

\* one pass of `for idx, row in df_copy.iterrows()`
GeocodeRow ==
    /\ geo_pc = "LOOP"
    /\ geo_row <= NRows(geo_df)
    /\ \E outcome \in ServiceOutcomes :
          LET done == loop_body(geo_df, geo_row, geocoding_cache.entries, outcome)
          IN /\ geo_df' = done.df
             /\ unresolved' = unresolved \o done.unresolved
             /\ geo_calls' = geo_calls \o done.calls
             /\ geocoding_cache' = IF done.calls = << >> THEN geocoding_cache
                                   ELSE Cache(done.calls[1].cache)
             /\ queries' = IF done.calls # << >> /\ ~done.calls[1].hit
                           THEN Append(queries, done.calls[1].query) ELSE queries
             /\ sleeps' = IF done.calls # << >> /\ done.calls[1].slept
                          THEN sleeps + 1 ELSE sleeps
    /\ geo_row' = geo_row + 1
    /\ UNCHANGED <<geo_pc, geo_in, geo_runs>>
    /\ UNCHANGED <<upload_vars, session_vars, app_vars>>

\* return df_copy, unresolved
GeocodeReturn ==
    /\ geo_pc = "LOOP"
    /\ geo_row > NRows(geo_df)
    /\ geo_pc' = "RETURNED"
    /\ UNCHANGED <<geo_in, geo_df, geo_row, unresolved, geocoding_cache, queries, sleeps,
                   geo_calls, geo_runs>>
    /\ UNCHANGED <<upload_vars, session_vars, app_vars>>

\* the caller calls add_coordinates_to_dataframe on the same table again,
\* in the same session
GeocodeAgain ==
    /\ geo_pc = "RETURNED"
    /\ geo_runs < MaxGeoRuns
    /\ geo_runs' = geo_runs + 1
    /\ geo_pc' = "CALLED"
    /\ UNCHANGED <<geo_in, geo_df, geo_row, unresolved, geocoding_cache, queries, sleeps,
                   geo_calls>>
    /\ UNCHANGED <<upload_vars, session_vars, app_vars>>

----------------------------------------------------------------------------
(* s3_storage.py: the stored table behind the Streamlit secrets            *)

\* a call that returned a value, and a call an exception left
Return(value) == [raised |-> FALSE, value |-> value]
Raise(type) == [raised |-> TRUE, type |-> type]

\* botocore's ClientError with e.response['Error']['Code']
ClientError(code) == [raised |-> TRUE, type |-> "ClientError", code |-> code]

\* st.stop() and st.rerun() leave the script by exceptions that derive from
\* BaseException, not from Exception
ScriptControl == {"StopException", "RerunException"}

\* does a try statement with these except clauses catch the exception
Caught(type, clauses) ==
    type \in clauses \/ ("Exception" \in clauses /\ type \notin ScriptControl)

\* st.secrets["aws"][key]: the secrets file may be absent ("no_file"), lack
\* the aws section ("no_aws"), or lack bucket_name and s3_key ("no_bucket")
Secret(st_secrets, key) ==
    IF st_secrets = "no_file" THEN Raise("FileNotFoundError")
    ELSE IF st_secrets = "no_aws" THEN Raise("KeyError")
    ELSE IF st_secrets = "no_bucket" /\ key \in {"bucket_name", "s3_key"} THEN Raise("KeyError")
    ELSE Return(key)

\* get_s3_client: KeyError and every other Exception become ValueError
get_s3_client(st_secrets) ==
    IF ~Secret(st_secrets, "access_key_id").raised THEN Return("client")
    ELSE IF Caught(Secret(st_secrets, "access_key_id").type, {"KeyError", "Exception"})
    THEN Raise("ValueError")
    ELSE Secret(st_secrets, "access_key_id")

\* get_s3_config: only KeyError becomes ValueError
get_s3_config(st_secrets) ==
    IF ~Secret(st_secrets, "bucket_name").raised THEN Return("config")
    ELSE IF Caught(Secret(st_secrets, "bucket_name").type, {"KeyError"})
    THEN Raise("ValueError")
    ELSE Secret(st_secrets, "bucket_name")

\* the object store as one request finds it: holding a table, holding bytes
\* that are no CSV, holding nothing, refusing access, or out of reach
StoredTable(table) == [state |-> "table", table |-> table]
Garbled == [state |-> "garbled", table |-> None]
NoObject == [state |-> "missing", table |-> None]
AccessDenied == [state |-> "denied", table |-> None]
Unreachable == [state |-> "unreachable", table |-> None]

\* s3_client.head_object(Bucket=..., Key=...)
head_object(store) ==
    IF store.state \in {"table", "garbled"} THEN Return("head")
    ELSE IF store.state = "missing" THEN ClientError("404")
    ELSE IF store.state = "denied" THEN ClientError("403")
    ELSE Raise("EndpointConnectionError")

\* pd.read_csv(BytesIO(s3_client.get_object(...)['Body'].read())); pandas'
\* parser errors are ValueErrors
get_object_as_csv(store) ==
    IF store.state = "table" THEN Return(store.table)
    ELSE IF store.state = "garbled" THEN Raise("ValueError")
    ELSE IF store.state = "missing" THEN ClientError("NoSuchKey")
    ELSE IF store.state = "denied" THEN ClientError("AccessDenied")
    ELSE Raise("EndpointConnectionError")

\* s3_client.put_object(...): replaces whatever the key held
put_object(store) ==
    IF store.state = "denied" THEN ClientError("AccessDenied")
    ELSE IF store.state = "unreachable" THEN Raise("EndpointConnectionError")
    ELSE Return("put")

\* the start of each try block: the client, the configuration, the request
s3_try(st_secrets, request) ==
    IF get_s3_client(st_secrets).raised THEN get_s3_client(st_secrets)
    ELSE IF get_s3_config(st_secrets).raised THEN get_s3_config(st_secrets)
    ELSE request

\* a faulty variant: client errors other than 404 are raised again
exists_result_reraising(body) ==
    IF ~body.raised THEN Return(TRUE)
    ELSE IF body.type = "ClientError" /\ body.code # "404" THEN body
    ELSE Return(FALSE)

\* the except clauses of check_s3_table_exists
exists_result(body) ==
    IF ~body.raised THEN Return(TRUE)
    ELSE IF Caught(body.type, {"ClientError", "ValueError", "Exception"}) THEN Return(FALSE)
    ELSE body

check_s3_table_exists(st_secrets, store) == exists_result(s3_try(st_secrets, head_object(store)))

\* the except clauses of load_table_from_s3
load_result(body) ==
    IF ~body.raised THEN Return(body.value)
    ELSE IF Caught(body.type, {"ValueError", "ClientError", "Exception"}) THEN Return(None)
    ELSE body

load_table_from_s3(st_secrets, store) == load_result(s3_try(st_secrets, get_object_as_csv(store)))

\* the except clauses of save_table_to_s3
save_result(body) ==
    IF ~body.raised THEN Return(TRUE)
    ELSE IF Caught(body.type, {"ValueError", "ClientError", "Exception"}) THEN Return(FALSE)
    ELSE body

save_table_to_s3(table, st_secrets, store) == save_result(s3_try(st_secrets, put_object(store)))

----------------------------------------------------------------------------
(* map_view.py, plots.py and profile/panel.py: what a table puts on a page *)

\* df["LATITUDE"].notna() & df["LONGITUDE"].notna(), and the same for the
\* two columns of a plot
both_notna(t, x, y) ==
    [r \in 1..NRows(t) |-> ~isna(Column(t, x)[r]) /\ ~isna(Column(t, y)[r])]

\* a view that rendered: what it showed, of which rows, and what it returned
View(shown, rows, value) == [raised |-> FALSE, shown |-> shown, rows |-> rows, value |-> value]

\* render_map_view(df, "Default"): the return value is always None
render_map_view(t) ==
    IF ~HasColumn(t, N_LATITUDE) \/ ~HasColumn(t, N_LONGITUDE) THEN Raise("KeyError")
    ELSE IF IsEmpty(SelectRows(t, both_notna(t, N_LATITUDE, N_LONGITUDE)))
    THEN View("warning", << >>, None)
    ELSE IF ~HasColumn(t, N_SYSTEM_ID) THEN Raise("KeyError")
    ELSE View("map", SelectRows(t, both_notna(t, N_LATITUDE, N_LONGITUDE)).index, None)

\* the rows of a plot and the row picked in it (0 for none): the SYSTEM_ID
\* of the picked row is returned
plot_of(plot_df, picked) ==
    IF IsEmpty(plot_df) THEN View("warning", << >>, None)
    ELSE IF ~HasColumn(plot_df, N_CITY) \/ ~HasColumn(plot_df, N_COUNTRY) THEN Raise("KeyError")
    ELSE IF ~HasColumn(plot_df, N_SYSTEM_ID) THEN Raise("KeyError")
    ELSE IF picked \in 1..NRows(plot_df)
    THEN View("plot", plot_df.index, Column(plot_df, N_SYSTEM_ID)[picked])
    ELSE View("plot", plot_df.index, None)

\* create_lines_vs_miles_plot(df)
create_lines_vs_miles_plot(t, picked) ==
    IF ~HasColumn(t, N_NUMBER_OF_LINES) \/ ~HasColumn(t, N_TOTAL_MILES) THEN Raise("KeyError")
    ELSE plot_of(SelectRows(t, both_notna(t, N_NUMBER_OF_LINES, N_TOTAL_MILES)), picked)

\* create_ridership_vs_population_plot(df)
create_ridership_vs_population_plot(t, picked) ==
    IF ~HasColumn(t, N_ANNUAL_RIDERSHIP) \/ ~HasColumn(t, N_CITY_POPULATION) THEN Raise("KeyError")
    ELSE plot_of(SelectRows(t, both_notna(t, N_ANNUAL_RIDERSHIP, N_CITY_POPULATION)), picked)

\* `if selected_system_id:` for None, a text, a number or NaN
Truthy(value) ==
    /\ value # None
    /\ ~(value.t = "str" /\ value.v = << >>)
    /\ ~(value.t = "num" /\ value.v = <<"0">>)

\* what render_plots_tab leaves: the exception if one left it, what each of
\* the two plots showed, and the selection returned
PlotsRan(raised, type, first_shown, second_shown, value) ==
    [raised |-> raised, type |-> type,
     shown |-> [lines_miles |-> first_shown, ridership_population |-> second_shown],
     value |-> value]

\* the second plot is drawn only `if not selected_system_id`
plots_both(first, second) ==
    IF first.raised THEN PlotsRan(TRUE, first.type, "raised", "none", None)
    ELSE IF Truthy(first.value) THEN PlotsRan(FALSE, "none", first.shown, "skipped", first.value)
    ELSE IF second.raised THEN PlotsRan(TRUE, second.type, first.shown, "raised", None)
    ELSE PlotsRan(FALSE, "none", first.shown, second.shown, second.value)

\* render_plots_tab(df) with the rows picked in the two plots (0 for none)
render_plots_tab(t, picked) ==
    plots_both(create_lines_vs_miles_plot(t, picked.lines_miles),
               create_ridership_vs_population_plot(t, picked.ridership_population))

\* df[df["SYSTEM_ID"] == system_id]: the positions of the matching rows
matching_rows(t, system_id) ==
    {r \in 1..NRows(t) : ~isna(Column(t, N_SYSTEM_ID)[r])
                         /\ Column(t, N_SYSTEM_ID)[r] = system_id}

\* one entry of system_data: "N/A" for a missing value, else the value
X_N_A == <<"N","/","A">>
field_of(name, c) == [field |-> name, value |-> IF isna(c) THEN StrCell(X_N_A) ELSE c]

\* a panel that rendered: what it showed and the Field / Value pairs
Panel(shown, fields) == [raised |-> FALSE, shown |-> shown, fields |-> fields]

\* row = system_row.iloc[0] and the loop over df.columns; row[col] of a name
\* two columns carry is a Series, and `if pd.isna(value)` raises on it
panel_row(t, r) ==
    IF \E j \in 1..Len(t.cols) : CountColumns(t, t.cols[j].name) > 1 THEN Raise("ValueError")
    ELSE Panel("row", [j \in 1..Len(t.cols) |-> field_of(t.cols[j].name, t.cols[j].cells[r])])

\* render_profile_panel(df, system_id)
render_profile_panel(t, system_id) ==
    IF system_id = None THEN Panel("no_selection", << >>)
    ELSE IF ~HasColumn(t, N_SYSTEM_ID) THEN Raise("KeyError")
    ELSE IF matching_rows(t, system_id) = {} THEN Panel("not_found", << >>)
    ELSE panel_row(t, MinOf(matching_rows(t, system_id)))

\* initialize_session_state: the three s3_table_ keys as first set
InitialFlags == [checked |-> FALSE, exists |-> FALSE, loaded |-> FALSE]

\* a page: which screen the run reached, what the Map and Plots tabs and
\* their profile panels showed, and the exception that ended the run
NoPanel == Panel("none", << >>)
NoPlots == [lines_miles |-> "none", ridership_population |-> "none"]
BlankPage(screen) ==
    [screen |-> screen, map |-> "none", map_panel |-> NoPanel,
     plots |-> NoPlots, plots_panel |-> NoPanel, raised |-> "none"]

\* what the user did to start the run: the button pressed or the rows
\* picked in the plots, "none" for a run nothing started
Event(kind, upload, picked) == [kind |-> kind, upload |-> upload, picked |-> picked]
NonePicked == [lines_miles |-> 0, ridership_population |-> 0]
NoEvent == Event("none", None, NonePicked)

\* main has not run
AppIdle ==
    /\ s3_flags = InitialFlags
    /\ selected_system_id = None
    /\ page = BlankPage("none")
    /\ app_pc = "IDLE"
    /\ widgets = NoEvent
    /\ choice_made = "none"
    /\ secrets = "no_file"

----------------------------------------------------------------------------
(* The uploads the pipeline is run on                                      *)

MaxRows == 3        \* rows of the tables that vary the key columns
MaxCoerceRows == 1  \* rows of the tables that vary one numeric column's cells
MaxFailRows == 4    \* rows of the tables that vary which cells fail to coerce

X_Paris == <<"P","a","r","i","s">>
X_NewYork == <<" ","N","e","w"," ","Y","o","r","k"," ">>
X_France == <<"F","r","a","n","c","e">>
X_NYC_1 == <<"N","Y","C","_","1">>
X_1 == <<"1">>
X_2 == <<"2">>
X_3 == <<"3">>
X_x == <<"x">>
X_y == <<"y">>
X_question == <<"?">>
X_28 == <<"2","8">>
X_1904 == <<"1","9","0","4">>
X_8800000 == <<"8","8","0","0","0","0","0">>
X_NA == <<"N","/","A">>
X_1_234 == <<"1",",","2","3","4">>
X_approx == <<"2","4","5",".","5"," ","(","a","p","p","r","o","x",")">>
X_note_only == <<"(","2","0","1","9",")">>
X_250_mi == <<"(","2","5","0"," ","m","i",")">>
X_3_5_million == <<"3",".","5"," ","m","i","l","l","i","o","n">>
X_1_2_Billion == <<"1",",","2","0","0",".","5"," ","B","i","l","l","i","o","n">>
X_4_1_million == <<"4",".","1"," ","m","i","l","l","i","o","n">>
X_2_01_Billion == <<"2",".","0","1"," ","B","I","L","L","I","O","N">>
X_comma_billion == <<"n","/","a",","," ","b","i","l","l","i","o","n">>
X_March_2019 == <<"M","a","r","c","h"," ","2","0","1","9">>
X_unknown == <<"u","n","k","n","o","w","n">>
X_city_lower == <<" ","c","i","t","y"," ">>
X_System_ID == <<"S","y","s","t","e","m"," ","I","D">>
X_Europe == <<"E","u","r","o","p","e">>
X_120 == <<"1","2","0">>
X_blank == <<" "," ">>
X_40_7 == <<"4","0",".","7">>
X_minus_74 == <<"-","7","4",".","0">>
H_LineCount == <<"L","i","n","e"," ","C","o","u","n","t">>
N_LINE_COUNT == <<"L","I","N","E","_","C","O","U","N","T">>

\* a column to draw: its header and the cells its rows are drawn from
ColSpec(name, cells) == [name |-> name, cells |-> cells]

\* every table with these columns and n rows
RECURSIVE ColumnsOver(_, _)
ColumnsOver(colspecs, n) ==
    IF colspecs = << >> THEN {<< >>}
    ELSE {<<[name |-> Head(colspecs).name, cells |-> c]>> \o rest :
             c \in [1..n -> Head(colspecs).cells], rest \in ColumnsOver(Tail(colspecs), n)}

TablesOver(colspecs, n) ==
    {[index |-> [r \in 1..n |-> r], cols |-> cols] : cols \in ColumnsOver(colspecs, n)}

TablesUpTo(colspecs, lo, hi) == UNION {TablesOver(colspecs, n) : n \in lo..hi}

\* the subsequences of a sequence
SubSequences(s) ==
    {Masked(s, [i \in 1..Len(s) |-> i \in keep]) : keep \in SUBSET (1..Len(s))}

CityCol == ColSpec(N_CITY, {StrCell(X_Paris), StrCell(X_NewYork), Null})
CountryCol == ColSpec(N_COUNTRY, {StrCell(X_France)})
OneCity == ColSpec(N_CITY, {StrCell(X_Paris)})
SystemIdCol == ColSpec(N_SYSTEM_ID, {StrCell(X_NYC_1), Null})
SequenceCol == ColSpec(H_Sequence, {StrCell(X_1), NumCell(X_2), StrCell(X_3), StrCell(X_x), Null})
SequenceFlagCol == ColSpec(H_Sequence, {StrCell(X_1), StrCell(X_x)})
LinesCol == ColSpec(N_NUMBER_OF_LINES, {NumCell(X_28), StrCell(X_x)})

\* header variants of the key columns, one row each
HeaderVariants == <<
    ColSpec(N_CITY, {StrCell(X_Paris)}),
    ColSpec(H_City, {StrCell(X_Paris)}),
    ColSpec(X_city_lower, {StrCell(X_Paris)}),
    ColSpec(N_COUNTRY, {StrCell(X_France)}),
    ColSpec(H_Country, {StrCell(X_France)}),
    ColSpec(N_SYSTEM_ID, {StrCell(X_NYC_1)}),
    ColSpec(H_Sequence, {StrCell(X_1)}),
    ColSpec(X_System_ID, {StrCell(X_NYC_1)}) >>

HeaderTables == UNION {TablesOver(cs, 1) : cs \in SubSequences(HeaderVariants)}

\* headers of the ignore list, and pairs of headers that normalize alike
IgnoredAndAlike == <<
    ColSpec(N_CITY, {StrCell(X_Paris)}),
    ColSpec(H_City, {StrCell(X_NewYork)}),
    ColSpec(N_COUNTRY, {StrCell(X_France)}),
    ColSpec(H_Continent, {StrCell(X_Europe)}),
    ColSpec(N_STATIONS, {NumCell(X_28)}),
    ColSpec(H_Stations, {NumCell(X_120)}),
    ColSpec(H_LineCount, {NumCell(X_3)}),
    ColSpec(N_LINE_COUNT, {NumCell(X_2)}) >>

IgnoreTables == UNION {TablesOver(cs, 1) : cs \in SubSequences(IgnoredAndAlike)}

\* SYSTEM_ID present or absent, with missing values in it and in CITY
IdTables ==
    TablesUpTo(<<CityCol, CountryCol>>, 0, MaxRows)
    \cup TablesUpTo(<<SystemIdCol, CityCol, CountryCol>>, 0, MaxRows)

\* a Sequence column, with and without SYSTEM_ID and a numeric column
SequenceTables ==
    TablesUpTo(<<SequenceCol, OneCity, CountryCol>>, 1, MaxRows)
    \cup TablesUpTo(<<SequenceFlagCol, OneCity, CountryCol, LinesCol>>, 1, MaxRows)
    \cup TablesUpTo(<<SystemIdCol, SequenceFlagCol, OneCity, CountryCol>>, 1, MaxRows)

\* the cells a numeric column is tried on
NumericSamples == {
    NumCell(X_1904), NumCell(X_8800000), StrCell(X_1_234), StrCell(X_approx),
    StrCell(X_note_only), StrCell(X_250_mi), StrCell(X_NA), StrCell(T_nan),
    StrCell(X_3_5_million), StrCell(X_1_2_Billion), StrCell(X_comma_billion),
    StrCell(X_March_2019), StrCell(X_unknown), Null }

NumericHeaders ==
    {numeric_columns[k] : k \in 1..Len(numeric_columns)}
        \cup {H_Lines, H_Stations, H_AnnualRidership}

CoerceTables ==
    UNION {TablesUpTo(<<OneCity, CountryCol, ColSpec(h, NumericSamples)>>, 1, MaxCoerceRows) :
              h \in NumericHeaders}

\* one reported column with up to four distinct failing values
FailTables ==
    TablesUpTo(<<OneCity, CountryCol,
                 ColSpec(N_NUMBER_OF_LINES,
                         {StrCell(X_x), StrCell(X_y), StrCell(X_NA),
                          StrCell(X_question), Null})>>, 1, MaxFailRows)

\* readable and unreadable cells of one reported column side by side
LinesTables == TablesUpTo(<<OneCity, CountryCol, LinesCol>>, 1, MaxRows)

\* a reported, a measure and a suppressed column side by side
MixedTables ==
    TablesUpTo(<<OneCity, CountryCol, LinesCol,
                 ColSpec(N_TOTAL_MILES, {StrCell(X_1_234), StrCell(X_NA)}),
                 ColSpec(N_ANNUAL_RIDERSHIP, {StrCell(X_3_5_million), StrCell(X_unknown)})>>,
               1, MaxCoerceRows)

\* ridership figures written with a unit word
RidershipTables ==
    TablesUpTo(<<OneCity, CountryCol,
                 ColSpec(N_ANNUAL_RIDERSHIP,
                         {StrCell(X_3_5_million), StrCell(X_4_1_million),
                          StrCell(X_2_01_Billion)})>>, 1, MaxCoerceRows)

InputTables ==
    HeaderTables \cup IdTables \cup SequenceTables \cup CoerceTables
        \cup FailTables \cup LinesTables \cup MixedTables \cup IgnoreTables
        \cup RidershipTables

BytesA == <<80, 75, 3, 4>>
BytesB == <<80, 75, 5, 6>>
BytesC == <<37, 80, 68, 70>>
BytesD == <<80, 75, 7, 8>>

Workbook(sheets) == [readable |-> TRUE, sheets |-> sheets]
Unreadable == [readable |-> FALSE, sheets |-> << >>]
Sheet(name, table) == [name |-> name, table |-> table]
Upload(bytes, wb, sheet) == [file_bytes |-> bytes, workbook |-> wb, selected_sheet |-> sheet]

SampleTable ==
    CHOOSE t \in TablesOver(<<OneCity, CountryCol, LinesCol>>, 1) :
        t.cols[3].cells = <<NumCell(X_28)>>
OtherTable == CHOOSE t \in TablesOver(<<OneCity>>, 1) : TRUE
MoreTable ==
    CHOOSE t \in TablesOver(<<OneCity, CountryCol, LinesCol>>, 2) :
        t.cols[3].cells = <<NumCell(X_28), StrCell(X_x)>>

\* a workbook of three sheets: the first lacks COUNTRY, the others are valid
ThreeSheets ==
    Workbook(<<Sheet("Sheet1", OtherTable), Sheet("Data", SampleTable),
               Sheet("More", MoreTable)>>)

\* one sheet holding each input table (BytesA stands for the bytes of that
\* file); and the uploads that end before validation or choose among sheets
Uploads ==
    {Upload(BytesA, Workbook(<<Sheet("Sheet1", t)>>), "") : t \in InputTables}
    \cup {Upload(<< >>, Unreadable, ""),
          Upload(BytesC, Unreadable, ""),
          Upload(BytesD, Workbook(<< >>), "")}
    \cup {Upload(BytesB, ThreeSheets, s) : s \in {"", "Data", "More", "Missing"}}

\* the uploads a session of several 'Process File' presses is made of
SessionUploads ==
    {Upload(BytesB, ThreeSheets, s) : s \in {"", "Data", "More"}}
    \cup {Upload(BytesA, Workbook(<<Sheet("Sheet1", MoreTable)>>), ""),
          Upload(BytesD, Workbook(<< >>), "")}

MaxUploads == 2     \* 'Process File' presses in one session

\* what the user does in a session: one upload of any kind, or several
\* of the session uploads
Plans ==
    {<<u>> : u \in Uploads}
    \cup UNION {[1..n -> SessionUploads] : n \in 2..MaxUploads}

\* add_coordinates_to_dataframe is not running
GeocoderIdle ==
    /\ geo_pc = "IDLE"
    /\ geo_in = None
    /\ geo_df = None
    /\ geo_row = 0
    /\ unresolved = << >>
    /\ geocoding_cache = NoCache
    /\ queries = << >>
    /\ sleeps = 0
    /\ geo_calls = << >>
    /\ geo_runs = 0

Init ==
    /\ \E plan \in Plans :
          /\ file_bytes = plan[1].file_bytes
          /\ workbook = plan[1].workbook
          /\ selected_sheet = plan[1].selected_sheet
          /\ pending = Tail(plan)
    /\ df_raw = None
    /\ df = None
    /\ pc = "START"
    /\ errors = << >>
    /\ warnings = << >>
    /\ exc = NoException
    /\ upload_result = NotReturned
    /\ session_state = InitialSession
    /\ history = << >>
    /\ map_df = None
    /\ GeocoderIdle
    /\ AppIdle

Next ==
    \/ Begin
    \/ SequenceFilter
    \/ MapColumns
    \/ CheckRequired
    \/ BackfillId
    \/ ConvertNumeric
    \/ ParseDates
    \/ ValidateReturn
    \/ FinishOk
    \/ FinishRaised
    \/ ProcessFile
    \/ MapTab
    \/ NextUpload

Spec == Init /\ [][Next]_vars

----------------------------------------------------------------------------
(* The tables add_coordinates_to_dataframe is called with                  *)

MaxGeoRows == 2     \* rows of the tables handed to the geocoder

GeoCityCol == ColSpec(N_CITY, {StrCell(X_Paris), StrCell(X_NewYork), StrCell(X_blank), Null})
CityOrNoneCol == ColSpec(N_CITY, {StrCell(X_Paris), Null})
GeoCountryCol == ColSpec(N_COUNTRY, {StrCell(X_France), StrCell(X_blank), Null})
LatitudeCol == ColSpec(N_LATITUDE, {NumCell(X_40_7), Null})
LongitudeCol == ColSpec(N_LONGITUDE, {NumCell(X_minus_74), Null})

GeoTables ==
    TablesUpTo(<<GeoCityCol, CountryCol>>, 1, MaxGeoRows)
    \cup TablesUpTo(<<CityOrNoneCol, CountryCol, LatitudeCol, LongitudeCol>>, 1, MaxGeoRows)
    \cup TablesUpTo(<<OneCity, CountryCol, LatitudeCol>>, 1, MaxGeoRows)
    \cup TablesUpTo(<<OneCity, GeoCountryCol>>, 1, MaxGeoRows)
    \cup TablesOver(<<CountryCol>>, 1)

\* no upload is in progress
UploadIdle ==
    /\ file_bytes = << >>
    /\ workbook = Unreadable
    /\ selected_sheet = ""
    /\ pending = << >>
    /\ df_raw = None
    /\ df = None
    /\ pc = "IDLE"
    /\ errors = << >>
    /\ warnings = << >>
    /\ exc = NoException
    /\ upload_result = NotReturned
    /\ session_state = InitialSession
    /\ history = << >>
    /\ map_df = None

GeoInit ==
    /\ UploadIdle
    /\ geo_in \in GeoTables
    /\ geo_pc = "CALLED"
    /\ geo_df = None
    /\ geo_row = 0
    /\ unresolved = << >>
    /\ geocoding_cache = NoCache
    /\ queries = << >>
    /\ sleeps = 0
    /\ geo_calls = << >>
    /\ geo_runs = 1
    /\ AppIdle

GeoNext ==
    \/ AddColumns
    \/ GeocodeRow
    \/ GeocodeReturn
    \/ GeocodeAgain

GeoSpec == GeoInit /\ [][GeoNext]_vars

----------------------------------------------------------------------------
(* ingest.py: create_dummy_dataframe                                       *)

X_LONDON_1 == <<"L","O","N","D","O","N","_","1">>
X_TOKYO_1 == <<"T","O","K","Y","O","_","1">>
X_New_York == <<"N","e","w"," ","Y","o","r","k">>
X_London == <<"L","o","n","d","o","n">>
X_Tokyo == <<"T","o","k","y","o">>
X_United_States == <<"U","n","i","t","e","d"," ","S","t","a","t","e","s">>
X_United_Kingdom == <<"U","n","i","t","e","d"," ","K","i","n","g","d","o","m">>
X_Japan == <<"J","a","p","a","n">>
X_NYC_Subway == <<"N","e","w"," ","Y","o","r","k"," ","C","i","t","y"," ","S","u","b","w","a","y">>
X_London_Underground == <<"L","o","n","d","o","n"," ","U","n","d","e","r","g","r","o","u","n","d">>
X_Tokyo_Metro == <<"T","o","k","y","o"," ","M","e","t","r","o">>
X_1863 == <<"1","8","6","3">>
X_1927 == <<"1","9","2","7">>
X_11 == <<"1","1">>
X_13 == <<"1","3">>
X_245 == <<"2","4","5">>
X_249 == <<"2","4","9">>
X_121 == <<"1","2","1">>
X_1700000000 == <<"1","7","0","0","0","0","0","0","0","0">>
X_1350000000 == <<"1","3","5","0","0","0","0","0","0","0">>
X_3200000000 == <<"3","2","0","0","0","0","0","0","0","0">>
X_9000000 == <<"9","0","0","0","0","0","0">>
X_14000000 == <<"1","4","0","0","0","0","0","0">>
X_yes == <<"y","e","s">>
X_no == <<"n","o">>

\* pd.DataFrame(data): the columns in the order given, a RangeIndex
DataFrame(cols) == [index |-> [r \in 1..Len(cols[1].cells) |-> r], cols |-> cols]

\* create_dummy_dataframe(): three systems, no LATITUDE and no LONGITUDE
create_dummy_dataframe ==
    DataFrame(<<
        ColSpec(N_SYSTEM_ID, <<StrCell(X_NYC_1), StrCell(X_LONDON_1), StrCell(X_TOKYO_1)>>),
        ColSpec(N_CITY, <<StrCell(X_New_York), StrCell(X_London), StrCell(X_Tokyo)>>),
        ColSpec(N_COUNTRY, <<StrCell(X_United_States), StrCell(X_United_Kingdom), StrCell(X_Japan)>>),
        ColSpec(N_SYSTEM_NAME, <<StrCell(X_NYC_Subway), StrCell(X_London_Underground), StrCell(X_Tokyo_Metro)>>),
        ColSpec(N_OPENED_YEAR, <<NumCell(X_1904), NumCell(X_1863), NumCell(X_1927)>>),
        ColSpec(N_NUMBER_OF_LINES, <<NumCell(X_28), NumCell(X_11), NumCell(X_13)>>),
        ColSpec(N_TOTAL_MILES, <<NumCell(X_245), NumCell(X_249), NumCell(X_121)>>),
        ColSpec(N_ANNUAL_RIDERSHIP, <<NumCell(X_1700000000), NumCell(X_1350000000), NumCell(X_3200000000)>>),
        ColSpec(N_CITY_POPULATION, <<NumCell(X_8800000), NumCell(X_9000000), NumCell(X_14000000)>>),
        ColSpec(N_VISITED, <<StrCell(X_yes), StrCell(X_yes), StrCell(X_no)>>)>>)


----------------------------------------------------------------------------
(* app.py: one run of main, from the top of the script to its end          *)

\* the literal data versions of the S3 table and of the dummy table
S3Version == [literal |-> "s3_loaded"]
DummyVersion == [literal |-> "dummy_data_v1"]

\* what one run leaves: the session keys, the button that returned True,
\* the page, and how the run ended: "done", "stop", "rerun" or "raised"
Ran(flags, session, selected, pressed, pg, ending) ==
    [s3_flags |-> flags, session_state |-> session, selected_system_id |-> selected,
     pressed |-> pressed, page |-> pg, ending |-> ending]

\* an exception no try statement catches ends the run where it is
RunRaised(ran, type) == [ran EXCEPT !.page.raised = type, !.ending = "raised"]

\* `if selected_system_id: st.session_state.selected_system_id = ...`
selected_after(selected, value) == IF Truthy(value) THEN value ELSE selected

\* with tab4, col2: the profile panel
plots_tab_panel(ran, panel) ==
    IF panel.raised THEN RunRaised(ran, panel.type)
    ELSE [ran EXCEPT !.page.plots_panel = panel]

\* with tab4, col1: the plots, and the selection they return
plots_tab(ran, t, plots) ==
    IF plots.raised
    THEN RunRaised([ran EXCEPT !.page.plots = plots.shown], plots.type)
    ELSE plots_tab_panel(
             [ran EXCEPT !.page.plots = plots.shown,
                         !.selected_system_id = selected_after(@, plots.value)],
             render_profile_panel(t, selected_after(ran.selected_system_id, plots.value)))

\* with tab3, col2: the profile panel, then tab4
map_tab_panel(ran, t, panel, picked) ==
    IF panel.raised THEN RunRaised(ran, panel.type)
    ELSE plots_tab([ran EXCEPT !.page.map_panel = panel], t, render_plots_tab(t, picked))

\* with tab3, col1: the map, and the selection it returns
map_tab(ran, t, map, picked) ==
    IF map.raised
    THEN RunRaised([ran EXCEPT !.page.map = "raised"], map.type)
    ELSE map_tab_panel(
             [ran EXCEPT !.page.map = map.shown,
                         !.selected_system_id = selected_after(@, map.value)],
             t, render_profile_panel(t, selected_after(ran.selected_system_id, map.value)),
             picked)

\* tab3 and tab4: `if df is None or df.empty` tells the user to upload
view_tabs(ran, picked) ==
    IF map_tab_table(ran.session_state) = None
    THEN [ran EXCEPT !.page.map = "info",
                     !.page.plots = [lines_miles |-> "info", ridership_population |-> "info"]]
    ELSE map_tab(ran, ran.session_state.df_core,
                 render_map_view(ran.session_state.df_core), picked)

\* tab2, render_ingest_tab: 'Process File' stores a cleaned table; 'Load
\* Dummy Data' is on the page only while df_core is None, and reruns
ingested(ran, event) ==
    IF event.kind = "ProcessFile"
    THEN [ran EXCEPT !.pressed = "ProcessFile",
                     !.session_state = store_upload(@,
                         process_excel_upload(event.upload.file_bytes,
                                              event.upload.workbook,
                                              event.upload.selected_sheet))]
    ELSE IF event.kind = "LoadDummyData" /\ ran.session_state.df_core = None
    THEN [ran EXCEPT !.pressed = "LoadDummyData",
                     !.session_state = [df_core |-> create_dummy_dataframe,
                                        data_version |-> DummyVersion],
                     !.ending = "rerun"]
    ELSE ran

\* tab3 and tab4 follow unless st.rerun() ended the run
after_ingest(ran, event) ==
    IF ran.ending = "rerun" THEN ran ELSE view_tabs(ran, event.picked)

\* the title and the tabs: the part of main after the S3 check
tabs_screen(flags, session, selected, event) ==
    after_ingest(ingested(Ran(flags, session, selected, "none", BlankPage("tabs"), "done"),
                          event),
                 event)

\* what the S3 check leaves: the flags, the session keys, the button that
\* returned True, and "tabs", "stop" or "rerun"
Checked(flags, session, pressed, ending) ==
    [s3_flags |-> flags, session_state |-> session, pressed |-> pressed, ending |-> ending]

\* a faulty variant: 'Use Existing Table' stores the table without a version
preview_buttons_without_version(flags, session, event, df_preview) ==
    IF event.kind = "UseExistingTable"
    THEN Checked([flags EXCEPT !.loaded = TRUE],
                 [session EXCEPT !.df_core = df_preview],
                 "UseExistingTable", "rerun")
    ELSE IF event.kind = "UploadNewTable"
    THEN Checked([flags EXCEPT !.loaded = FALSE], session, "UploadNewTable", "rerun")
    ELSE Checked(flags, session, "none", "stop")

\* the two buttons under the preview, then st.stop()
preview_buttons(flags, session, event, df_preview) ==
    IF event.kind = "UseExistingTable"
    THEN Checked([flags EXCEPT !.loaded = TRUE],
                 [df_core |-> df_preview, data_version |-> S3Version],
                 "UseExistingTable", "rerun")
    ELSE IF event.kind = "UploadNewTable"
    THEN Checked([flags EXCEPT !.loaded = FALSE], session, "UploadNewTable", "rerun")
    ELSE Checked(flags, session, "none", "stop")

\* the try block of main: the stored table is looked for and previewed
s3_check(flags, session, event, exists, preview) ==
    IF exists.raised THEN Checked([flags EXCEPT !.exists = FALSE], session, "none", "tabs")
    ELSE IF ~exists.value
    THEN Checked([flags EXCEPT !.exists = FALSE], session, "none", "tabs")
    ELSE IF session.df_core # None
    THEN Checked([flags EXCEPT !.exists = TRUE], session, "none", "tabs")
    ELSE IF preview.raised
    THEN Checked([flags EXCEPT !.exists = FALSE], session, "none", "tabs")
    ELSE IF preview.value # None
    THEN preview_buttons([flags EXCEPT !.exists = TRUE], session, event, preview.value)
    ELSE Checked([flags EXCEPT !.exists = FALSE], session, "none", "tabs")

\* the rest of main: the tabs, unless st.stop() or st.rerun() ended the run
after_s3_check(checked, selected, event) ==
    IF checked.ending = "tabs"
    THEN tabs_screen(checked.s3_flags, checked.session_state, selected, event)
    ELSE Ran(checked.s3_flags, checked.session_state, selected, checked.pressed,
             BlankPage("choice"), checked.ending)

\* the condition main opens with
shows_choice(flags, session) ==
    ~flags.checked \/ (flags.exists /\ ~flags.loaded /\ session.df_core = None)

\* main(): the S3 check when its condition holds, then the tabs; the object
\* store is as check_s3_table_exists and load_table_from_s3 find it
main(flags, session, selected, event, secrets_now, at_check, at_load) ==
    after_s3_check(
        IF shows_choice(flags, session)
        THEN s3_check([flags EXCEPT !.checked = TRUE], session, event,
                      check_s3_table_exists(secrets_now, at_check),
                      load_table_from_s3(secrets_now, at_load))
        ELSE Checked(flags, session, "none", "tabs"),
        selected, event)

----------------------------------------------------------------------------
(* The sheets, the stored tables and the secrets main is run with          *)

X_16 == <<"1","6">>
X_140 == <<"1","4","0">>

\* a sheet with coordinates and the columns of both plots; the second row
\* has no ridership
FullTable ==
    DataFrame(<<
        ColSpec(N_CITY, <<StrCell(X_Paris), StrCell(X_New_York)>>),
        ColSpec(N_COUNTRY, <<StrCell(X_France), StrCell(X_United_States)>>),
        ColSpec(N_LATITUDE, <<NumCell(X_48_8566), NumCell(X_40_7)>>),
        ColSpec(N_LONGITUDE, <<NumCell(X_2_3522), NumCell(X_minus_74)>>),
        ColSpec(N_NUMBER_OF_LINES, <<NumCell(X_16), NumCell(X_28)>>),
        ColSpec(N_TOTAL_MILES, <<NumCell(X_140), NumCell(X_245)>>),
        ColSpec(N_ANNUAL_RIDERSHIP, <<StrCell(X_3_5_million), Null>>),
        ColSpec(N_CITY_POPULATION, <<NumCell(X_120), NumCell(X_249)>>)>>)

\* the same sheet with two more headers that are alike once normalized
AlikeTable ==
    [FullTable EXCEPT !.cols = @ \o <<ColSpec(H_LineCount, <<NumCell(X_16), NumCell(X_28)>>),
                                      ColSpec(N_LINE_COUNT, <<NumCell(X_16), NumCell(X_28)>>)>>]

\* a later sheet of one other system
LaterTable ==
    DataFrame(<<
        ColSpec(N_CITY, <<StrCell(X_Tokyo)>>),
        ColSpec(N_COUNTRY, <<StrCell(X_Japan)>>),
        ColSpec(N_LATITUDE, <<NumCell(X_40_7)>>),
        ColSpec(N_LONGITUDE, <<NumCell(X_140)>>),
        ColSpec(N_NUMBER_OF_LINES, <<NumCell(X_13)>>),
        ColSpec(N_TOTAL_MILES, <<NumCell(X_121)>>),
        ColSpec(N_ANNUAL_RIDERSHIP, <<Null>>),
        ColSpec(N_CITY_POPULATION, <<Null>>)>>)

\* a sheet of the required columns only, and one that lacks CITY
PlainTable == DataFrame(<<ColSpec(N_CITY, <<StrCell(X_Paris)>>), ColSpec(N_COUNTRY, <<StrCell(X_France)>>)>>)
NoCityTable == DataFrame(<<ColSpec(N_COUNTRY, <<StrCell(X_France)>>)>>)

AppUploads ==
    {Upload(<<80, 75, 3, 1>>, Workbook(<<Sheet("Sheet1", FullTable)>>), ""),
     Upload(<<80, 75, 3, 2>>, Workbook(<<Sheet("Sheet1", AlikeTable)>>), ""),
     Upload(<<80, 75, 3, 3>>, Workbook(<<Sheet("Sheet1", LaterTable)>>), ""),
     Upload(<<80, 75, 3, 4>>, Workbook(<<Sheet("Sheet1", PlainTable)>>), ""),
     Upload(<<80, 75, 3, 5>>, Workbook(<<Sheet("Sheet1", NoCityTable)>>), ""),
     Upload(<< >>, Unreadable, ""),
     Upload(BytesC, Unreadable, "")}

\* what the object store may hold: a table cleaned earlier, or a CSV of a
\* header line only
HeaderOnlyTable == [index |-> << >>, cols |-> <<ColSpec(N_CITY, << >>), ColSpec(N_COUNTRY, << >>)>>]
Stores ==
    {StoredTable(validate_dataframe(FullTable).df), StoredTable(HeaderOnlyTable),
     Garbled, NoObject, AccessDenied, Unreachable}

Secrets == {"complete", "no_bucket", "no_aws", "no_file"}

----------------------------------------------------------------------------
(* app.py: the runs of main a user's session is made of                    *)

\* a widget the page shows is used: its state goes into the next run
Interact(next_event) ==
    /\ app_pc = "WAIT"
    /\ widgets' = next_event
    /\ app_pc' = "RUN"
    /\ UNCHANGED <<s3_flags, selected_system_id, page, choice_made, secrets>>
    /\ UNCHANGED <<upload_vars, session_vars, geo_vars>>

\* the user presses 'Use Existing Table' under the preview
PressUseExistingTable ==
    /\ page.screen = "choice"
    /\ Interact(Event("UseExistingTable", None, NonePicked))

\* the user presses 'Upload New Table' under the preview
PressUploadNewTable ==
    /\ page.screen = "choice"
    /\ Interact(Event("UploadNewTable", None, NonePicked))

\* the user uploads a file in the Ingest tab and presses 'Process File';
\* the button is there only when the sheet names could be read
PressProcessFile ==
    /\ page.screen = "tabs"
    /\ \E u \in AppUploads :
          /\ u.workbook.readable
          /\ Interact(Event("ProcessFile", u, NonePicked))

\* the user presses 'Load Dummy Data', which the Ingest tab shows while
\* df_core is None
PressLoadDummyData ==
    /\ page.screen = "tabs"
    /\ session_state.df_core = None
    /\ Interact(Event("LoadDummyData", None, NonePicked))

\* the user picks a row in one of the plots the page shows
SelectPoint ==
    /\ page.screen = "tabs"
    /\ \/ /\ page.plots.lines_miles = "plot"
          /\ \E k \in 1..NRows(session_state.df_core) :
                Interact(Event("select", None, [lines_miles |-> k, ridership_population |-> 0]))
       \/ /\ page.plots.ridership_population = "plot"
          /\ \E k \in 1..NRows(session_state.df_core) :
                Interact(Event("select", None, [lines_miles |-> 0, ridership_population |-> k]))

\* the session keys and the page a run leaves; st.rerun() starts the next
\* run with no widget used
AfterRun(ran) ==
    /\ s3_flags' = ran.s3_flags
    /\ session_state' = ran.session_state
    /\ selected_system_id' = ran.selected_system_id
    /\ page' = ran.page
    /\ app_pc' = IF ran.ending = "rerun" THEN "RUN" ELSE "WAIT"
    /\ widgets' = NoEvent
    /\ choice_made' = IF ran.pressed \in {"UseExistingTable", "UploadNewTable"}
                      THEN ran.pressed ELSE choice_made
    /\ UNCHANGED <<secrets, upload_vars, pending, history, map_df, geo_vars>>

\* the object store answers only the runs that ask it
StoresAsked == IF shows_choice(s3_flags, session_state) THEN Stores ELSE {NoObject}

\* one run of main, from the top of the script
RunScript ==
    /\ app_pc = "RUN"
    /\ \E at_check \in StoresAsked, at_load \in StoresAsked :
          AfterRun(main(s3_flags, session_state, selected_system_id, widgets,
                        secrets, at_check, at_load))

AppInit ==
    /\ UploadIdle
    /\ GeocoderIdle
    /\ s3_flags = InitialFlags
    /\ selected_system_id = None
    /\ page = BlankPage("none")
    /\ app_pc = "RUN"
    /\ widgets = NoEvent
    /\ choice_made = "none"
    /\ secrets \in Secrets

AppNext ==
    \/ PressUseExistingTable
    \/ PressUploadNewTable
    \/ PressProcessFile
    \/ PressLoadDummyData
    \/ SelectPoint
    \/ RunScript

AppSpec == AppInit /\ [][AppNext]_vars

----------------------------------------------------------------------------
(* Properties                                                              *)

\* validate_dataframe was entered: the sheet was loaded and is not empty
Entered == pc # "START" /\ df_raw # None /\ ~IsEmpty(df_raw)

\* the cell of the uploaded table that row r, column j of df comes from
RawCell(j, r) == df_raw.cols[j].cells[df.index[r]]

\* the positions in the issue list of the numeric messages naming col
NumericIssuesFor(issues, col) ==
    {i \in 1..Len(issues) : issues[i].kind = "numeric" /\ issues[i].col = col}

FilteredIssues(issues) == {i \in 1..Len(issues) : issues[i].kind = "filtered"}

\* the Sequence cells of the inputs that read as a number
NumericSequenceCells == {StrCell(X_1), NumCell(X_2), StrCell(X_3)}

\* row r of the uploaded table passes the Sequence filter
PassesSequenceFilter(r) ==
    ~HasColumn(df_raw, H_Sequence) \/ Column(df_raw, H_Sequence)[r] \in NumericSequenceCells

\* df holds exactly the uploaded rows that pass the filter, in their order
RowsAreFilteredUpload ==
    /\ \A r \in 1..NRows(df_raw) : InList(r, df.index) <=> PassesSequenceFilter(r)
    /\ \A k \in 1..(NRows(df) - 1) : df.index[k] < df.index[k + 1]
    /\ \A j \in 1..Len(df.cols) : Len(df.cols[j].cells) = NRows(df)

HasDigit(text) == \E i \in 1..Len(text) : text[i] \in Digits

ReportedNumericColumns ==
    {N_OPENED_YEAR, N_NUMBER_OF_LINES, N_TOTAL_MILES, N_CITY_POPULATION,
     N_STATIONS, N_LATITUDE, N_LONGITUDE}

\* the rows of df whose cell in column j was not null when uploaded and is null
FailedRows(j) ==
    {r \in 1..NRows(df) : ~isna(RawCell(j, r)) /\ isna(df.cols[j].cells[r])}

----------------------------------------------------------------------------
\* C1: validate_dataframe raises ValidationError exactly when CITY or COUNTRY
\* is not among the column names after the mapping; a missing SYSTEM_ID alone
\* does not abort; after the abort no table is handed on, and
\* process_excel_upload returns (None, None, [one message]).
LacksCityOrCountry(names) == ~InList(N_CITY, names) \/ ~InList(N_COUNTRY, names)

C1_RequiredColumnsDecideAbort ==
    (Entered /\ pc \notin {"RAW", "SEQUENCE_FILTERED", "COLUMNS_NORMALIZED"}) =>
        /\ (exc.type = "ValidationError")
               <=> LacksCityOrCountry(Columns(map_columns_to_normalized(df_raw)))
        /\ exc.type = "ValidationError" => pc \in {"RAISED", "DONE", "PROCESSED", "IDLE"}
        /\ (exc.type = "ValidationError" /\ pc \in {"PROCESSED", "IDLE"}) =>
               history[Len(history)].result.df = None
        /\ (exc.type = "ValidationError" /\ pc = "DONE") =>
               /\ upload_result.df = None
               /\ upload_result.data_version = None
               /\ Len(upload_result.issues) = 1
               /\ upload_result.issues[1].kind = "missing_required"

C1_Witness ==
    /\ pc = "DONE"
    /\ exc.type = "ValidationError"
    /\ HasColumn(df_raw, N_CITY)
    /\ ~HasColumn(df_raw, N_COUNTRY)
    /\ upload_result = Returned(None, None, <<MissingRequiredMessage(<<N_SYSTEM_ID, N_COUNTRY>>)>>)

\* C2: whatever the cells of a declared numeric column hold, the numeric
\* coercion completes: convert_numeric_columns never raises.
C2_CoercionNeverAborts == exc.where # "convert_numeric_columns"

\* C3: in OPENED_YEAR, NUMBER_OF_LINES, CITY_POPULATION and STATIONS a cell
\* that holds a plain number keeps that number in the cleaned table.
GenericNumericColumns == {N_OPENED_YEAR, N_NUMBER_OF_LINES, N_CITY_POPULATION, N_STATIONS}

C3_PlainNumberKept ==
    pc = "CLEAN" =>
        \A j \in 1..Len(df_raw.cols) : df.cols[j].name \in GenericNumericColumns =>
            \A r \in 1..NRows(df) :
                RawCell(j, r).t = "num" => df.cols[j].cells[r] = RawCell(j, r)

\* C4: the cleaned table has a SYSTEM_ID column and no row with a null in it.
C4_SystemIdNeverNull ==
    pc = "CLEAN" =>
        /\ HasColumn(df, N_SYSTEM_ID)
        /\ \A r \in 1..NRows(df) : ~isna(Column(df, N_SYSTEM_ID)[r])

\* C5: without a SYSTEM_ID among the column names after the mapping, every
\* row of the cleaned table has SYSTEM_ID = trimmed CITY, '_', trimmed
\* COUNTRY, in upper case with spaces as underscores, a missing CITY or
\* COUNTRY reading 'nan'.
IdPart(c) == ReplaceChar(Upper(Strip(astype_str(c))), " ", "_")

ExpectedSystemId(city, country) == StrCell(IdPart(city) \o <<"_">> \o IdPart(country))

RowsHaveDerivedId ==
    \A r \in 1..NRows(df) :
        /\ Column(df, N_SYSTEM_ID)[r]
               = ExpectedSystemId(Column(df, N_CITY)[r], Column(df, N_COUNTRY)[r])
        /\ (Column(df, N_CITY)[r] = StrCell(X_Paris)
                /\ Column(df, N_COUNTRY)[r] = StrCell(X_France))
               => Column(df, N_SYSTEM_ID)[r].v
                      = <<"P","A","R","I","S","_","F","R","A","N","C","E">>

NoHeaderForSystemId ==
    \A j \in 1..Len(df_raw.cols) :
        /\ df_raw.cols[j].name \notin {N_SYSTEM_ID, H_Sequence}
        /\ normalize_column_name(df_raw.cols[j].name) # N_SYSTEM_ID

DroppedRows == {r \in 1..NRows(df_raw) : ~PassesSequenceFilter(r)}

OneFilteredWarning(issues) ==
    IF DroppedRows = {} THEN FilteredIssues(issues) = {}
    ELSE /\ Cardinality(FilteredIssues(issues)) = 1
         /\ \A i \in FilteredIssues(issues) : issues[i].count = Cardinality(DroppedRows)

C6_SequenceFilterDropsNonNumericRows ==
    (Entered /\ HasColumn(df_raw, H_Sequence)) =>
        /\ pc = "SEQUENCE_FILTERED" =>
               /\ RowsAreFilteredUpload
               /\ \A j \in 1..Len(df_raw.cols) :
                      /\ df.cols[j].name = df_raw.cols[j].name
                      /\ \A r \in 1..NRows(df) : df.cols[j].cells[r] = RawCell(j, r)
               /\ Len(df.cols) = Len(df_raw.cols)
               /\ OneFilteredWarning(warnings)
               /\ warnings = AllIssues
               /\ exc = NoException
        /\ pc = "CLEAN" => RowsAreFilteredUpload /\ OneFilteredWarning(AllIssues)
        /\ (pc = "DONE" /\ exc = NoException) => OneFilteredWarning(upload_result.issues)

C6_Witness ==
    /\ pc = "SEQUENCE_FILTERED"
    /\ HasColumn(df_raw, H_Sequence)
    /\ Column(df_raw, H_Sequence) = <<StrCell(X_1), StrCell(X_x), StrCell(X_3)>>
    /\ df.index = <<1, 3>>
    /\ Column(df, H_Sequence) = <<StrCell(X_1), StrCell(X_3)>>
    /\ warnings = <<FilteredWarning(1)>>

\* C7: a cell 'N/A' in NUMBER_OF_LINES becomes null and counts as a
\* coercion failure: the column gets exactly one issue message, and 'N/A' is
\* in its sample of failing values unless the sample already holds three.
LinesColumns == {j \in 1..Len(df_raw.cols) : df.cols[j].name = N_NUMBER_OF_LINES}

OnlyNotAvailableFails(j) ==
    /\ \E r \in 1..NRows(df) : RawCell(j, r) = StrCell(X_NA)
    /\ \A r \in 1..NRows(df) : RawCell(j, r) \in {StrCell(X_NA), NumCell(X_28), Null}

QuietColumns == {N_ANNUAL_RIDERSHIP, N_LAST_MAJOR_UPDATE}

C8_QuietColumnsNeverReported ==
    /\ \A i \in 1..Len(AllIssues) : AllIssues[i].col \notin QuietColumns
    /\ pc = "DONE" =>
           \A i \in 1..Len(upload_result.issues) :
               upload_result.issues[i].col \notin QuietColumns
    /\ pc = "CLEAN" =>
           \A j \in 1..Len(df_raw.cols) : df.cols[j].name \in QuietColumns =>
               \A r \in 1..NRows(df) :
                   /\ df.cols[j].cells[r].t \in {"num", "null"}
                   /\ (RawCell(j, r).t = "str" /\ ~HasDigit(RawCell(j, r).v))
                          => df.cols[j].cells[r] = Null

C8_Witness ==
    /\ pc = "CLEAN"
    /\ HasColumn(df_raw, N_LAST_MAJOR_UPDATE)
    /\ Column(df_raw, N_LAST_MAJOR_UPDATE) = <<StrCell(X_unknown)>>
    /\ Column(df, N_LAST_MAJOR_UPDATE) = <<Null>>
    /\ AllIssues = << >>

\* C9: each reported numeric column of the cleaned table has an issue
\* message exactly when some cell of it was not null before the coercion and
\* is null after it; the message lists the first three distinct failing
\* original values, or all of them when fewer, in order of first occurrence.
FirstRow(j, c) ==
    CHOOSE r \in FailedRows(j) :
        /\ RawCell(j, r) = c
        /\ \A q \in FailedRows(j) : RawCell(j, q) = c => r <= q

IsFailureSample(j, values) ==
    /\ Len(values) \in 1..3
    /\ \A k \in 1..Len(values) : \E r \in FailedRows(j) : RawCell(j, r) = values[k]
    /\ \A k, l \in 1..Len(values) :
           k < l => FirstRow(j, values[k]) < FirstRow(j, values[l])
    /\ \A r \in FailedRows(j) :
           \/ InList(RawCell(j, r), values)
           \/ Len(values) = 3 /\ FirstRow(j, values[3]) < r

C9_OneIssuePerFailingColumn ==
    pc = "CLEAN" =>
        \A j \in 1..Len(df_raw.cols) : df.cols[j].name \in ReportedNumericColumns =>
            IF FailedRows(j) = {}
            THEN NumericIssuesFor(AllIssues, df.cols[j].name) = {}
            ELSE /\ Cardinality(NumericIssuesFor(AllIssues, df.cols[j].name)) = 1
                 /\ \A i \in NumericIssuesFor(AllIssues, df.cols[j].name) :
                        IsFailureSample(j, AllIssues[i].values)

C9_Witness ==
    /\ pc = "CLEAN"
    /\ HasColumn(df_raw, N_NUMBER_OF_LINES)
    /\ Column(df_raw, N_NUMBER_OF_LINES)
           = <<StrCell(X_x), StrCell(X_y), StrCell(X_NA), StrCell(X_question)>>
    /\ AllIssues = <<NumericIssue(N_NUMBER_OF_LINES,
                                  <<StrCell(X_x), StrCell(X_y), StrCell(X_NA)>>)>>

\* C10: the cleaned table has exactly the uploaded rows that pass the
\* Sequence filter, whatever the numeric cells hold, and one malformed cell
\* in one reported numeric column gives exactly one numeric issue, naming
\* that column.
MalformedCells ==
    {<<j, r>> \in (1..Len(df_raw.cols)) \X (1..NRows(df)) :
         df.cols[j].name \in ReportedNumericColumns /\ r \in FailedRows(j)}

AllNumericIssues == {i \in 1..Len(AllIssues) : AllIssues[i].kind = "numeric"}

C10_MalformedCellKeepsRow ==
    pc = "CLEAN" =>
        /\ RowsAreFilteredUpload
        /\ NRows(df) = NRows(df_raw) - Cardinality(DroppedRows)
        /\ Cardinality(MalformedCells) = 1 =>
               /\ Cardinality(AllNumericIssues) = 1
               /\ \A i \in AllNumericIssues : \A m \in MalformedCells :
                      AllIssues[i].col = df.cols[m[1]].name
               /\ DroppedRows = {} => Len(AllIssues) = 1

C10_Witness ==
    /\ pc = "CLEAN"
    /\ HasColumn(df_raw, N_NUMBER_OF_LINES)
    /\ Column(df_raw, N_NUMBER_OF_LINES) = <<NumCell(X_28), StrCell(X_x), NumCell(X_28)>>
    /\ df.index = <<1, 2, 3>>
    /\ Column(df, N_NUMBER_OF_LINES) = <<NumCell(X_28), Null, NumCell(X_28)>>
    /\ AllIssues = <<NumericIssue(N_NUMBER_OF_LINES, <<StrCell(X_x)>>)>>

\* C11: whatever the headers of the uploaded table, no header of the ignore
\* list is a key of the rename mapping map_columns_to_normalized builds.
C11_IgnoredHeaderNeverAKey ==
    pc = "COLUMNS_NORMALIZED" =>
        \A i \in 1..Len(IGNORE_COLUMNS) :
            /\ ~InList(IGNORE_COLUMNS[i], Keys(BuildColumnMapping(Columns(df_raw))))
            /\ \A j \in 1..Len(df_raw.cols) :
                   df_raw.cols[j].name = IGNORE_COLUMNS[i] => df.cols[j].name = df_raw.cols[j].name

\* C12: for every header of the ignore list in the uploaded table, the table
\* after the mapping, and the cleaned table, has no column that holds that
\* header's data under its raw name or under its normalized name.
HoldsDataOf(i, j) ==
    /\ df.cols[i].name \in {df_raw.cols[j].name, normalize_column_name(df_raw.cols[j].name)}
    /\ df.cols[i].cells = [r \in 1..NRows(df) |-> RawCell(j, r)]

C12_IgnoredColumnsDropped ==
    pc \in {"COLUMNS_NORMALIZED", "CLEAN"} =>
        \A j \in 1..Len(df_raw.cols) : InList(df_raw.cols[j].name, IGNORE_COLUMNS) =>
            \A i \in 1..Len(df.cols) : ~HoldsDataOf(i, j)

\* C13: after the mapping no two columns of the table carry the same name.
C13_NoTwoColumnsAlike ==
    pc = "COLUMNS_NORMALIZED" =>
        \A i, j \in 1..Len(df.cols) : i # j => df.cols[i].name # df.cols[j].name

\* C14: whenever process_excel_upload returns no table it returns no data
\* version and at least one message.
C14_NoTableComesWithAMessage ==
    (pc = "DONE" /\ upload_result.df = None) =>
        /\ upload_result.data_version = None
        /\ Len(upload_result.issues) >= 1

\* C15: df_core and data_version are what the last 'Process File' that
\* returned a table stored, both from that one result; a press that ends in
\* a fatal failure leaves both as they were.
RECURSIVE LastStored(_)
LastStored(presses) ==
    IF presses = << >> THEN InitialSession
    ELSE IF presses[Len(presses)].result.df # None
    THEN [df_core |-> presses[Len(presses)].result.df,
          data_version |-> presses[Len(presses)].result.data_version]
    ELSE LastStored(SubSeq(presses, 1, Len(presses) - 1))

C15_FatalFailureKeepsSession == session_state = LastStored(history)

C15_Witness ==
    /\ pc = "IDLE"
    /\ Len(history) = 2
    /\ history[1].result.df # None
    /\ history[2].result.df = None
    /\ history[2].result.issues # << >>
    /\ session_state.df_core = history[1].result.df
    /\ session_state.data_version = history[1].result.data_version

\* C16: a data version is returned only together with a table, and two
\* uploads of the same bytes that return a table return the same version,
\* whatever sheet was selected and whatever issues were reported.
Outcomes ==
    {history[i] : i \in 1..Len(history)}
        \cup (IF pc = "DONE" THEN {Pressed(file_bytes, selected_sheet, upload_result)} ELSE {})

C16_VersionFromBytesOnly ==
    /\ \A a \in Outcomes : a.result.data_version # None <=> a.result.df # None
    /\ \A a, b \in Outcomes :
           (a.file_bytes = b.file_bytes /\ a.result.df # None /\ b.result.df # None)
               => a.result.data_version = b.result.data_version

C16_Witness ==
    /\ Len(history) = 2
    /\ history[1].file_bytes = history[2].file_bytes
    /\ history[1].selected_sheet = "Data"
    /\ history[2].selected_sheet = "More"
    /\ history[1].result.df # None
    /\ history[2].result.df # None
    /\ history[1].result.issues # history[2].result.issues
    /\ history[1].result.data_version = history[2].result.data_version

\* C17: the table the Map tab reads after a successful 'Process File' has
\* the LATITUDE and LONGITUDE columns add_coordinates_to_dataframe gives it.
C17_MapTableWasGeocoded ==
    (pc = "IDLE" /\ map_df # None) =>
        /\ HasColumn(map_df, N_LATITUDE)
        /\ HasColumn(map_df, N_LONGITUDE)

----------------------------------------------------------------------------
(* Properties of the geocoder                                              *)

\* the cell of the table handed to the geocoder, blank text when it has no
\* such column
GeoCell(r, name) == IF HasColumn(geo_in, name) THEN Column(geo_in, name)[r] ELSE StrCell(<< >>)

IsBlank(c) == c.t = "str" /\ \A i \in 1..Len(c.v) : c.v[i] = " "

HadBothCoordinates(r) ==
    /\ HasColumn(geo_in, N_LATITUDE) /\ ~isna(Column(geo_in, N_LATITUDE)[r])
    /\ HasColumn(geo_in, N_LONGITUDE) /\ ~isna(Column(geo_in, N_LONGITUDE)[r])

\* the rows a run looks up: a coordinate is missing, and both texts read
\* as something (a missing value reads 'nan')
LookedUpRows ==
    {r \in 1..NRows(geo_in) :
        /\ ~HadBothCoordinates(r)
        /\ ~IsBlank(GeoCell(r, N_CITY))
        /\ ~IsBlank(GeoCell(r, N_COUNTRY))}

NoDuplicates(list) == \A i, j \in 1..Len(list) : i # j => list[i] # list[j]

\* C18: over the calls of geocode_location that share the session's cache,
\* the service is queried at most once per query string; a call whose query
\* was looked up before is answered from the cache with the value stored
\* then (coordinates or None), without a query and without a sleep; and an
\* entry of the cache is never removed or changed.
EarlierCalls(k) == {e \in 1..(k - 1) : geo_calls[e].query = geo_calls[k].query}

C18_OneQueryPerString ==
    /\ NoDuplicates(queries)
    /\ Len(queries) = Cardinality({k \in 1..Len(geo_calls) : ~geo_calls[k].hit})
    /\ sleeps = Cardinality({k \in 1..Len(geo_calls) : geo_calls[k].slept})
    /\ \A k \in 1..Len(geo_calls) :
           /\ geo_calls[k].hit <=> EarlierCalls(k) # {}
           /\ geo_calls[k].hit => ~geo_calls[k].slept
           /\ \A e \in EarlierCalls(k) : geo_calls[k].returned = geo_calls[e].returned
           /\ InList([key |-> geo_calls[k].query, value |-> geo_calls[k].returned],
                     geo_calls[k].cache)
           /\ \A e \in 1..(k - 1) : \A i \in 1..Len(geo_calls[e].cache) :
                  /\ i <= Len(geo_calls[k].cache)
                  /\ geo_calls[k].cache[i] = geo_calls[e].cache[i]
    /\ geo_calls # << >> => geocoding_cache = Cache(geo_calls[Len(geo_calls)].cache)

C18_Witness ==
    /\ Len(geo_calls) = 2
    /\ geo_calls[1].query = geo_calls[2].query
    /\ ~geo_calls[1].hit
    /\ geo_calls[2].hit
    /\ geo_calls[2].returned = None
    /\ queries = <<geo_calls[1].query>>
    /\ sleeps = 0

\* C19: a row that came with both LATITUDE and LONGITUDE keeps every cell
\* and causes no call of geocode_location, and the table the function was
\* called with is never changed.
RowUnchanged(r) ==
    \A j \in 1..Len(geo_in.cols) : geo_df.cols[j].cells[r] = geo_in.cols[j].cells[r]

RowsWithCoordinatesKept ==
    geo_pc \in {"LOOP", "RETURNED"} =>
        /\ \A r \in 1..NRows(geo_in) : HadBothCoordinates(r) => RowUnchanged(r)
        /\ Len(geo_calls) <= geo_runs * Cardinality(LookedUpRows)
        /\ geo_pc = "RETURNED" => Len(geo_calls) = geo_runs * Cardinality(LookedUpRows)

C19_RowsWithCoordinatesUntouched ==
    [](RowsWithCoordinatesKept) /\ [][geo_in' = geo_in]_vars

C19_Witness ==
    /\ geo_pc = "RETURNED"
    /\ geo_runs = 1
    /\ NRows(geo_in) = 2
    /\ HadBothCoordinates(1)
    /\ ~HadBothCoordinates(2)
    /\ Column(geo_df, N_LATITUDE) = <<NumCell(X_40_7), NumCell(X_48_8566)>>
    /\ Column(geo_df, N_LONGITUDE) = <<NumCell(X_minus_74), NumCell(X_2_3522)>>
    /\ Len(geo_calls) = 1

\* C20: the returned table has the rows of the input, and every row that
\* lacks city or country text (a null or blank cell) and a coordinate is in
\* the unresolved list and keeps null coordinates.
LacksText(r) ==
    \/ isna(GeoCell(r, N_CITY)) \/ IsBlank(GeoCell(r, N_CITY))
    \/ isna(GeoCell(r, N_COUNTRY)) \/ IsBlank(GeoCell(r, N_COUNTRY))

C20_RowsWithoutTextStayUnresolved ==
    geo_pc = "RETURNED" =>
        /\ geo_df.index = geo_in.index
        /\ \A r \in 1..NRows(geo_in) : (LacksText(r) /\ ~HadBothCoordinates(r)) =>
               /\ unresolved # << >>
               /\ isna(Column(geo_df, N_LATITUDE)[r])
               /\ isna(Column(geo_df, N_LONGITUDE)[r])

----------------------------------------------------------------------------
(* Properties of the pages main renders                                    *)

\* a run of main has ended on the tabs with a table to show
TabsShown ==
    /\ app_pc = "WAIT"
    /\ page.screen = "tabs"
    /\ map_tab_table(session_state) # None

\* the columns the map and the two plots read
LacksMapColumns(t) == ~HasColumn(t, N_LATITUDE) \/ ~HasColumn(t, N_LONGITUDE)
LacksLinesMilesColumns(t) == ~HasColumn(t, N_NUMBER_OF_LINES) \/ ~HasColumn(t, N_TOTAL_MILES)
LacksRidershipColumns(t) == ~HasColumn(t, N_ANNUAL_RIDERSHIP) \/ ~HasColumn(t, N_CITY_POPULATION)

\* C21: when the stored table lacks LATITUDE / LONGITUDE or the numeric
\* columns of a plot, the run that renders the Map and Plots tabs does not
\* fail: no KeyError ends it, only the map or that plot is left out, and
\* both profile panels and the other views are rendered.
C21_MissingColumnsOnlySuppress ==
    (/\ TabsShown
     /\ \/ LacksMapColumns(session_state.df_core)
        \/ LacksLinesMilesColumns(session_state.df_core)
        \/ LacksRidershipColumns(session_state.df_core)) =>
        /\ page.raised # "KeyError"
        /\ page.map # "raised"
        /\ page.map_panel.shown # "none"
        /\ page.plots_panel.shown # "none"

\* render_plots_tab returned, so the profile panel of the Plots tab is due
PlotsPanelDue ==
    /\ TabsShown
    /\ page.plots.lines_miles \in {"plot", "warning"}
    /\ page.plots.ridership_population \in {"plot", "warning", "skipped"}

\* the first row of the table whose SYSTEM_ID is the selected one, 0 for none
FirstRowOf(t, system_id) ==
    IF \E r \in 1..NRows(t) : Column(t, N_SYSTEM_ID)[r] = system_id
    THEN CHOOSE r \in 1..NRows(t) :
             /\ Column(t, N_SYSTEM_ID)[r] = system_id
             /\ \A q \in 1..(r - 1) : Column(t, N_SYSTEM_ID)[q] # system_id
    ELSE 0

\* C22: the profile panel shows the first row whose SYSTEM_ID is the selected
\* ID with every column of the table as a field / value pair; it reports
\* "not found" and shows no row when no row has the ID, and shows no row
\* when nothing is selected.
C22_PanelShowsFirstMatchingRow ==
    PlotsPanelDue =>
        /\ page.raised = "none"
        /\ IF selected_system_id = None
           THEN page.plots_panel.shown = "no_selection" /\ page.plots_panel.fields = << >>
           ELSE IF FirstRowOf(session_state.df_core, selected_system_id) = 0
           THEN page.plots_panel.shown = "not_found" /\ page.plots_panel.fields = << >>
           ELSE /\ page.plots_panel.shown = "row"
                /\ Len(page.plots_panel.fields) = Len(session_state.df_core.cols)
                /\ \A j \in 1..Len(session_state.df_core.cols) :
                       page.plots_panel.fields[j].field = session_state.df_core.cols[j].name

----------------------------------------------------------------------------
(* Properties of the external services                                     *)

\* the request of a call fails: the secrets are incomplete, or the object
\* store answers with an error
S3Fails(st_secrets, response) == st_secrets # "complete" \/ response.raised

----------------------------------------------------------------------------
(* Properties of validate_dataframe as a whole                             *)

\* C24: validate_dataframe applied to a table it has cleaned returns the
\* same column names and the same cell values, every numeric cell keeping
\* its value, and reports no issue.
C24_CleaningIsIdempotent ==
    (pc = "DONE" /\ upload_result.df # None) =>
        /\ ~validate_dataframe(upload_result.df).raised
        /\ validate_dataframe(upload_result.df).df = upload_result.df
        /\ validate_dataframe(upload_result.df).issues = << >>

\* the stages of validate_dataframe in the order of the code, and the stage
\* each is followed by
Stages ==
    <<"RAW", "SEQUENCE_FILTERED", "COLUMNS_NORMALIZED", "REQUIRED_CHECKED",
      "ID_BACKFILLED", "NUMERIC_COERCED", "DATE_PARSED", "CLEAN">>
StageOf(p) == CHOOSE i \in 1..Len(Stages) : Stages[i] = p
IsStage(p) == \E i \in 1..Len(Stages) : Stages[i] = p

\* the rows of the raw sheet whose cell under the raw header 'Sequence'
\* reads as a number
RawSequenceRows ==
    [r \in 1..NRows(df_raw) |-> ~isna(to_numeric(Column(df_raw, H_Sequence)[r]))]

\* C26: validate_dataframe passes its stages in the order sequence filter,
\* column mapping, required-column check, SYSTEM_ID backfill, numeric
\* coercion, date parsing, one stage per step and never back; the sequence
\* filter reads the raw header 'Sequence' and renames nothing; the date
\* stage changes neither the table nor the issue lists; and the stages
\* together give what process_excel_upload returns.
C26_StagesInFixedOrder ==
    /\ [][/\ (IsStage(pc) /\ pc # "CLEAN") =>
                 \/ IsStage(pc') /\ StageOf(pc') = StageOf(pc) + 1
                 \/ pc' = "RAISED"
          /\ pc = "CLEAN" => pc' = "DONE"
          /\ IsStage(pc') => (pc = "START" /\ pc' = "RAW") \/ (IsStage(pc) /\ StageOf(pc) < StageOf(pc'))
          /\ pc = "RAW" =>
                 /\ Columns(df') = Columns(df_raw)
                 /\ df' = IF HasColumn(df_raw, H_Sequence)
                          THEN SelectRows(df_raw, RawSequenceRows)
                          ELSE df_raw
          /\ pc = "NUMERIC_COERCED" =>
                 /\ pc' = "DATE_PARSED"
                 /\ df' = df
                 /\ errors' = errors
                 /\ warnings' = warnings]_vars
    /\ [](pc = "DONE" =>
              upload_result = process_excel_upload(file_bytes, workbook, selected_sheet))

C26_Witness ==
    /\ pc = "DONE"
    /\ upload_result.df # None
    /\ HasColumn(df_raw, H_Sequence)
    /\ NRows(df) < NRows(df_raw)
    /\ NRows(df) > 0
    /\ HasColumn(df, N_SYSTEM_ID)
    /\ ~HasColumn(df, H_Sequence)
    /\ upload_result.df = df
    /\ Len(upload_result.issues) = 1

\* the SYSTEM_ID column is absent from the table or null in every row
IdAbsentOrAllNull(t) ==
    ~HasColumn(t, N_SYSTEM_ID) \/ \A r \in 1..NRows(t) : isna(Column(t, N_SYSTEM_ID)[r])

\* C27: the backfill stage writes SYSTEM_ID exactly when the column is absent
\* or null in every row, and then in every row; when one row has an id the
\* table is returned as it is, rows with a null id staying null.
C27_BackfillOnlyWhenAbsentOrAllNull ==
    [][(pc = "REQUIRED_CHECKED" /\ pc' = "ID_BACKFILLED") =>
           IF IdAbsentOrAllNull(df)
           THEN /\ HasColumn(df', N_SYSTEM_ID)
                /\ \A r \in 1..NRows(df) :
                       Column(df', N_SYSTEM_ID)[r]
                           = derived_system_id(Column(df, N_CITY)[r], Column(df, N_COUNTRY)[r])
                /\ \A j \in 1..Len(df.cols) :
                       df.cols[j].name # N_SYSTEM_ID => df'.cols[j] = df.cols[j]
           ELSE df' = df]_vars

C27_Witness ==
    /\ pc = "ID_BACKFILLED"
    /\ HasColumn(df, N_SYSTEM_ID)
    /\ NRows(df) = 2
    /\ isna(Column(df, N_SYSTEM_ID)[1])
    /\ Column(df, N_SYSTEM_ID)[2] = StrCell(X_NYC_1)
    /\ ~isna(Column(df, N_CITY)[1])

\* the decimal text s = [digits][.][digits] times 10^k, the fraction left
\* over cut off: the decimal point moves k places to the right
Zeros(k) == [i \in 1..k |-> "0"]
ShiftedDecimal(s, k) ==
    TrimLeadingZeros(SubSeq(s, 1, RunLen(s, 1, Digits))
        \o SubSeq((IF RunLen(s, 1, Digits) < Len(s)
                   THEN From(s, RunLen(s, 1, Digits) + 2) ELSE << >>) \o Zeros(k), 1, k))

\* the number a ridership text '<number> billion' or '<number> million'
\* stands for, None for any other text
WrittenRidership(text) ==
    IF scaled_match(text, T_billion).ok
    THEN IF FloatRaises(RemoveChar(scaled_match(text, T_billion).s, ",")) THEN None
         ELSE NumCell(ShiftedDecimal(RemoveChar(scaled_match(text, T_billion).s, ","), 9))
    ELSE IF scaled_match(text, T_million).ok
    THEN IF FloatRaises(RemoveChar(scaled_match(text, T_million).s, ",")) THEN None
         ELSE NumCell(ShiftedDecimal(RemoveChar(scaled_match(text, T_million).s, ","), 6))
    ELSE None

\* C28: in ANNUAL_RIDERSHIP a cell '<number> billion' becomes the number
\* times 10^9 and otherwise a cell '<number> million' the number times 10^6,
\* whatever the case of the word and with the commas of the number removed,
\* cut off to an integer: '3.5 million' becomes 3500000.
C28_RidershipScaledByUnitWord ==
    pc = "CLEAN" =>
        \A j \in 1..Len(df_raw.cols) : df.cols[j].name = N_ANNUAL_RIDERSHIP =>
            \A r \in 1..NRows(df) :
                (RawCell(j, r).t = "str" /\ WrittenRidership(Strip(RawCell(j, r).v)) # None) =>
                    df.cols[j].cells[r] = WrittenRidership(Strip(RawCell(j, r).v))

\* C29: derived SYSTEM_IDs are not made unique: rows with the same CITY and
\* COUNTRY get the same derived SYSTEM_ID, and validate_dataframe returns
\* without an error or a warning about it (its issues are those of the
\* sequence filter and of the numeric coercion, nothing raises in the
\* backfill).
SameCityAndCountry(r, q) ==
    /\ Column(df, N_CITY)[r] = Column(df, N_CITY)[q]
    /\ Column(df, N_COUNTRY)[r] = Column(df, N_COUNTRY)[q]

C29_DuplicateIdsCollideSilently ==
    /\ (pc = "CLEAN" /\ NoHeaderForSystemId) =>
           /\ \A r, q \in 1..NRows(df) :
                  SameCityAndCountry(r, q) =>
                      Column(df, N_SYSTEM_ID)[r] = Column(df, N_SYSTEM_ID)[q]
           /\ \A i \in 1..Len(AllIssues) : AllIssues[i].kind \in {"numeric", "filtered"}
    /\ pc = "RAISED" => exc.where \in {"validate_dataframe", "convert_numeric_columns"}

C29_Witness ==
    /\ pc = "CLEAN"
    /\ NoHeaderForSystemId
    /\ NRows(df) = 3
    /\ SameCityAndCountry(1, 3)
    /\ ~SameCityAndCountry(1, 2)
    /\ Column(df, N_SYSTEM_ID)[1].v = <<"P","A","R","I","S","_","F","R","A","N","C","E">>
    /\ Column(df, N_SYSTEM_ID)[3] = Column(df, N_SYSTEM_ID)[1]
    /\ Column(df, N_SYSTEM_ID)[2] # Column(df, N_SYSTEM_ID)[1]
    /\ AllIssues = << >>

----------------------------------------------------------------------------
(* Properties of the runs of main                                          *)

\* C25: once 'Upload New Table' has been pressed under the preview of the
\* stored table, the runs that follow do not show the preview and its two
\* buttons again: they reach the tabs, with df_core still None until a
\* table is loaded there.
C25_UploadNewTableEndsChoice ==
    (choice_made = "UploadNewTable" /\ app_pc = "WAIT") => page.screen = "tabs"

\* C30: in every session state df_core is None exactly when data_version is
\* None: the upload, the dummy data and the stored table set both keys in
\* the same run, and no run sets either back to None.
C30_TableAndVersionTogether ==
    /\ [](session_state.df_core = None <=> session_state.data_version = None)
    /\ [][session_state.df_core # None =>
              /\ session_state'.df_core # None
              /\ session_state'.data_version # None]_vars

C30_Witness ==
    /\ app_pc = "WAIT"
    /\ choice_made = "UseExistingTable"
    /\ s3_flags.loaded
    /\ session_state.df_core # None
    /\ session_state.data_version = S3Version
    /\ page.screen = "tabs"

====
